---- MODULE Spec2Model ----
(***************************************************************************)
(* gam-cli (src/index.js, src/soap_forecast.js): the command handlers of   *)
(* GAMService and the date parsing of main, as one state machine.          *)
(*                                                                         *)
(* One run of the model is one invocation of the CLI: Init fixes the       *)
(* command, its arguments and the process environment; every await of a    *)
(* remote call is a step whose outcome is chosen from a bounded set.       *)
(*                                                                         *)
(* Time is counted in whole seconds since the epoch (the code's            *)
(* milliseconds divided by 1000: every comparison the code makes is        *)
(* invariant under that scaling, and 32-bit integers hold the values).     *)
(* Local time is UTC plus a fixed offset (no daylight-saving change).      *)
(***************************************************************************)
EXTENDS Integers, Sequences, FiniteSets, TLC

\* ---------------------------------------------------------------- bounds
FirstYear == 2024
YearSpan == 1
MaxDay == 32
MaxMonth == 13
MaxTzHours == 1

\* ------------------------------------------------------- JavaScript values
Null == [t |-> "null"]
Undefined == [t |-> "undefined"]
NaN == [t |-> "NaN"]
Str(s) == [t |-> "string", v |-> s]
\* a string held as the sequence of its characters
Text(chars) == [t |-> "text", v |-> chars]
Obj(o) == [t |-> "object", v |-> o]
Num(n) == [t |-> "number", v |-> n]

IsNullish(v) == v.t \in {"null", "undefined"}

\* ToBoolean
Truthy(v) ==
  CASE v.t \in {"null", "undefined", "NaN"} -> FALSE
    [] v.t = "string" -> v.v # ""
    [] v.t = "text" -> Len(v.v) > 0
    [] v.t = "number" -> v.v # 0
    [] v.t = "boolean" -> v.v
    [] OTHER -> TRUE

\* a || b
Or(a, b) == IF Truthy(a) THEN a ELSE b

\* a ?? b
Coalesce(a, b) == IF IsNullish(a) THEN b ELSE a

\* ------------------------------------------------- text (sequences of chars)
Digits == <<"0", "1", "2", "3", "4", "5", "6", "7", "8", "9">>

DigitChar(d) == Digits[d + 1]

IsDigit(c) == \E d \in 0..9 : Digits[d + 1] = c

DigitVal(c) == CHOOSE d \in 0..9 : Digits[d + 1] = c

Pad2(n) == <<DigitChar((n \div 10) % 10), DigitChar(n % 10)>>

Pad4(n) == Pad2(n \div 100) \o Pad2(n % 100)

\* the decimal digits of a non-negative integer
RECURSIVE DigitsOf(_)
DigitsOf(n) ==
  IF n < 10 THEN <<DigitChar(n)>> ELSE DigitsOf(n \div 10) \o <<DigitChar(n % 10)>>

\* parseInt(s, 10) of a text of digits
RECURSIVE ParseInt(_)
ParseInt(s) ==
  IF s = <<>> THEN 0
  ELSE ParseInt(SubSeq(s, 1, Len(s) - 1)) * 10 + DigitVal(s[Len(s)])

IsSpace(c) == c = " "

\* String.prototype.trim
RECURSIVE Trim(_)
Trim(s) ==
  IF s = <<>> THEN s
  ELSE IF IsSpace(s[1]) THEN Trim(Tail(s))
  ELSE IF IsSpace(s[Len(s)]) THEN Trim(SubSeq(s, 1, Len(s) - 1))
  ELSE s

\* ------------------------------------------------------------ calendar
SecondsPerDay == 86400

IsLeap(y) == (y % 4 = 0 /\ y % 100 # 0) \/ y % 400 = 0

DaysInMonth(y, m) ==
  IF m = 2 THEN (IF IsLeap(y) THEN 29 ELSE 28)
  ELSE IF m \in {4, 6, 9, 11} THEN 30 ELSE 31

\* Day number (days since 1970-01-01) of the civil date y-m-d, m in 1..12.
DaysFromCivil(y, m, d) ==
  LET yy == IF m <= 2 THEN y - 1 ELSE y
      era == yy \div 400
      yoe == yy - era * 400
      mp == IF m > 2 THEN m - 3 ELSE m + 9
      doy == (153 * mp + 2) \div 5 + d - 1
      doe == yoe * 365 + yoe \div 4 - yoe \div 100 + doy
  IN era * 146097 + doe - 719468

\* The civil date <<y, m, d>> of a day number.
CivilFromDays(z) ==
  LET zz == z + 719468
      era == zz \div 146097
      doe == zz - era * 146097
      yoe == (doe - doe \div 1460 + doe \div 36524 - doe \div 146096) \div 365
      doy == doe - (365 * yoe + yoe \div 4 - yoe \div 100)
      mp == (5 * doy + 2) \div 153
      d == doy - (153 * mp + 2) \div 5 + 1
      m == IF mp < 10 THEN mp + 3 ELSE mp - 9
      y == yoe + era * 400 + (IF m <= 2 THEN 1 ELSE 0)
  IN <<y, m, d>>

\* new Date(year, monthIndex, day): local midnight, out-of-range month and
\* day carried over (MakeDay), years 0..99 read as 1900..1999.
DateLocal(yyyy, mm, dd, tzHours) ==
  LET fullYear == IF yyyy \in 0..99 THEN 1900 + yyyy ELSE yyyy
      ym == fullYear + mm \div 12
      mn == mm % 12
      day == DaysFromCivil(ym, mn + 1, 1) + dd - 1
  IN Num(day * SecondsPerDay - tzHours * 3600)

\* new Date("YYYY-MM-DD"): UTC midnight. A month outside 01..12 or a day
\* outside 01..31 is an Invalid Date; a day 29..31 past the month's end is
\* left to the engine: rolled over into the next month, or an Invalid Date.
DateIsoUtc(y, m, d, rollover) ==
  IF m \notin 1..12 \/ d \notin 1..31 THEN NaN
  ELSE IF d > DaysInMonth(y, m) /\ ~rollover THEN NaN
  ELSE Num((DaysFromCivil(y, m, 1) + d - 1) * SecondsPerDay)

\* the date put together from its numbers without zero padding
ToISODateUnpadded(t) ==
  LET c == CivilFromDays(t \div SecondsPerDay)
  IN DigitsOf(c[1]) \o <<"-">> \o DigitsOf(c[2]) \o <<"-">> \o DigitsOf(c[3])

\* Date.prototype.toISOString().slice(0, 10), years 0..9999.
ToISODate(t) ==
  LET c == CivilFromDays(t \div SecondsPerDay)
  IN Pad4(c[1]) \o <<"-">> \o Pad2(c[2]) \o <<"-">> \o Pad2(c[3])

\* /^\d{8}$/
IsEightDigits(s) == Len(s) = 8 /\ \A i \in 1..8 : IsDigit(s[i])

\* /^\d{4}-\d{2}-\d{2}$/
IsIsoDateText(s) ==
  /\ Len(s) = 10
  /\ s[5] = "-" /\ s[8] = "-"
  /\ \A i \in {1, 2, 3, 4, 6, 7, 9, 10} : IsDigit(s[i])

\* new Date(s) for a text of neither form: the texts the model passes are
\* not recognised by the engine's parser.
DateFromText(s) == NaN

\* function parseDate(str): a Date (its time value) or null.
parseDate(str, tzHours, rollover) ==
  IF ~Truthy(str) \/ str.t # "text" THEN Null
  ELSE
    LET s == Trim(str.v)
    IN IF IsEightDigits(s) THEN
         LET dd == ParseInt(SubSeq(s, 1, 2))
             mm == ParseInt(SubSeq(s, 3, 4)) - 1
             yyyy == ParseInt(SubSeq(s, 5, 8))
             d == DateLocal(yyyy, mm, dd, tzHours)
         IN IF d.t = "NaN" THEN Null ELSE d
       ELSE IF IsIsoDateText(s) THEN
         LET d == DateIsoUtc(ParseInt(SubSeq(s, 1, 4)), ParseInt(SubSeq(s, 6, 7)),
                             ParseInt(SubSeq(s, 9, 10)), rollover)
         IN IF d.t = "NaN" THEN Null ELSE d
       ELSE
         LET d == DateFromText(s)
         IN IF d.t = "NaN" THEN Null ELSE d

\* ------------------------------------------------------ number formatting
\* Number.prototype.toLocaleString() of a non-negative integer (en-US
\* grouping: a comma between groups of three digits).
RECURSIVE ToLocaleString(_)
ToLocaleString(n) ==
  IF n < 1000 THEN DigitsOf(n)
  ELSE ToLocaleString(n \div 1000) \o <<",">>
       \o <<DigitChar((n % 1000) \div 100)>> \o Pad2(n % 100)

\* ((num / den) * 100).toFixed(digits) + '%' for num >= 0, den > 0: the
\* quotient rounded half up at the last digit kept.
RECURSIVE Pow10(_)
Pow10(k) == IF k = 0 THEN 1 ELSE 10 * Pow10(k - 1)

RECURSIVE PadDigits(_, _)
PadDigits(n, width) ==
  IF width = 0 THEN <<>> ELSE PadDigits(n \div 10, width - 1) \o <<DigitChar(n % 10)>>

PercentFixed(num, den, digits) ==
  LET scale == Pow10(digits)
      scaled == (2 * 100 * scale * num + den) \div (2 * den)
  IN DigitsOf(scaled \div scale)
     \o (IF digits > 0 THEN <<".">> \o PadDigits(scaled % scale, digits) ELSE <<>>)
     \o <<"%">>

Placeholder == <<"-">>

\* --------------------------------------------------------- inventory presets
PresetKeys == <<"run-of-site", "desktop", "mobile">>

DesktopSizes == {"970x250", "300x250", "300x600", "728x90"}

MobileSizes == {"320x50", "320x100", "300x50", "320x480", "300x250", "728x90"}

\* GAMService.INVENTORY_PRESETS[key].sizeFilter; a null filter accepts all.
SizeFilterAccepts(key, size) ==
  CASE key = "run-of-site" -> TRUE
    [] key = "desktop" -> size \in DesktopSizes
    [] key = "mobile" -> size \in MobileSizes

\* String(sizeVal).replace(/\s/g, '') on the size tokens of the model
StripWhitespace(size) ==
  CASE size = "300 x 250" -> "300x250"
    [] size = " 320x50" -> "320x50"
    [] OTHER -> size

RECURSIVE SumOver(_, _, _)
SumOver(bySize, keys, field) ==
  IF keys = {} THEN 0
  ELSE LET k == CHOOSE x \in keys : TRUE
       IN (IF field \in DOMAIN bySize[k] THEN bySize[k][field] ELSE 0)
          + SumOver(bySize, keys \ {k}, field)

\* _aggregateForecastByPreset(bySize, preset)
_aggregateForecastByPreset(bySize, key) ==
  IF "_total" \in DOMAIN bySize THEN
    LET t == bySize["_total"]
    IN [available |-> ToLocaleString(t.available),
        forecasted |-> ToLocaleString(t.forecasted),
        reserved |-> ToLocaleString(t.reserved),
        str |-> IF t.forecasted > 0 THEN PercentFixed(t.reserved, t.forecasted, 1)
                ELSE Placeholder,
        impressions |-> ToLocaleString(t.forecasted)]
  ELSE
    LET included == {s \in DOMAIN bySize : SizeFilterAccepts(key, StripWhitespace(s))}
        withImpr == {s \in included : "impressions" \in DOMAIN bySize[s]}
        others == included \ withImpr
        impressions == SumOver(bySize, withImpr, "impressions")
        available == SumOver(bySize, others, "available")
        forecasted == SumOver(bySize, others, "forecasted")
        reserved == SumOver(bySize, others, "reserved")
    IN IF withImpr # {} THEN [impressions |-> ToLocaleString(impressions)]
       ELSE [available |-> ToLocaleString(available),
             forecasted |-> ToLocaleString(forecasted),
             reserved |-> ToLocaleString(reserved),
             str |-> IF forecasted > 0 THEN PercentFixed(reserved, forecasted, 1)
                     ELSE Placeholder,
             impressions |-> ToLocaleString(impressions)]

\* ------------------------------------------------------------- the state
VARIABLES
  cmd,            \* args[0]: the command of this invocation
  focus,          \* which part of the input space this run explores
  pc,             \* the await the command is suspended at
  tzHours,        \* the process time zone: local time is UTC + tzHours
  isoRollover,    \* the engine's reading of an ISO day past the month's end
  credentialsOk,  \* path_to_private_key_file names an existing file (or is unset)
  args,           \* the command-line options, as given
  inv,            \* the locals of getInventory and of the sources it calls
  ord,            \* the locals of getOrders
  li,             \* the locals of getLineItems
  outcome,        \* what the command handed to main: a value, or a thrown error
  aggregate       \* the locals of _aggregateForecastByPreset and of the loop calling it

vars == <<cmd, focus, pc, tzHours, isoRollover, credentialsOk, args, inv, ord, li, outcome,
         aggregate>>

Running == [kind |-> "running"]
Returned(v) == [kind |-> "returned", value |-> v]
Threw(e) == [kind |-> "thrown", error |-> e]

\* ------------------------------------------------------------ thrown values
\* new Error(msg): String(err) is "Error: msg", or "Error" for an empty msg
ErrorObj(msg) ==
  [message |-> Str(msg), string |-> IF msg = "" THEN "Error" ELSE "Error: " \o msg]

\* a thrown primitive string: it has no .message
ThrownString(s) == [message |-> Undefined, string |-> s]

\* what a call to the remote service `src` may throw
Thrown(src) == {ErrorObj(src), ErrorObj(""), ThrownString("")}

\* err?.message || String(err)
ErrMessage(e) == Or(e.message, Str(e.string))

\* getClientOptions(): throws when the configured credentials file is absent
CredentialsError == ErrorObj("Credentials file not found")

getClientOptions(ok) ==
  IF ok THEN [k |-> "options"] ELSE [k |-> "throws", err |-> CredentialsError]

\* ----------------------------------------------------------- the clock
\* new Date() / Date.now() of this invocation: 2026-02-24T12:00:00Z
NowSec == DaysFromCivil(2026, 2, 24) * SecondsPerDay + 12 * 3600

\* ------------------------------------------------------ date arguments
DDMMYYYY(d, m, y) == Pad2(d) \o Pad2(m) \o Pad4(y)

YYYYMMDD(y, m, d) == Pad4(y) \o <<"-">> \o Pad2(m) \o <<"-">> \o Pad2(d)

NotADate == <<"n", "o", "t", "-", "a", "-", "d", "a", "t", "e">>

Years == FirstYear .. (FirstYear + YearSpan)

TzOffsets == (0 - MaxTzHours) .. MaxTzHours

\* the --start/--end pairs of the date-parsing runs: one day in both
\* spellings, and the texts that are no date at all
DateArgPairs ==
  {[start |-> Text(DDMMYYYY(d, m, y)), end |-> Text(YYYYMMDD(y, m, d))] :
     d \in 0..MaxDay, m \in 0..MaxMonth, y \in Years}
  \cup {[start |-> Text(NotADate), end |-> Undefined],
        [start |-> Text(<<>>), end |-> Text(<<" ">> \o DDMMYYYY(24, 2, FirstYear) \o <<" ">>)]}

\* the --start/--end pairs of the inventory runs, around the clock's day
InventoryArgPairs ==
  {[start |-> Undefined, end |-> Undefined],
   [start |-> Text(DDMMYYYY(12, 2, 2026)), end |-> Undefined],
   [start |-> Text(DDMMYYYY(12, 2, 2026)), end |-> Text(DDMMYYYY(20, 2, 2026))],
   [start |-> Text(YYYYMMDD(2026, 6, 1)), end |-> Text(DDMMYYYY(30, 6, 2026))],
   [start |-> Text(DDMMYYYY(25, 2, 2026)), end |-> Undefined]}

PresetArgs == {Undefined, Str("desktop"), Str("no-such-preset")}

\* ------------------------------------------------ getInventory: the range
\* getInventory lines 442-450, after main has parsed --start and --end
InventoryRange(preset, startDate, endDate, now) ==
  LET known == Truthy(preset) /\ \E i \in 1..Len(PresetKeys) : PresetKeys[i] = preset.v
      start == IF startDate # Null THEN startDate ELSE Num(now)
      end == IF endDate # Null THEN endDate ELSE Num(now + 30 * SecondsPerDay)
  IN [which |-> IF known THEN <<preset.v>> ELSE PresetKeys,
      startStr |-> ToISODate(start.v),
      endStr |-> ToISODate(end.v),
      useCustomRange |-> startDate # Null \/ endDate # Null,
      isFutureRange |-> start.v > now]

InvBlank ==
  [which |-> <<>>, startStr |-> <<>>, endStr |-> <<>>,
   startDate |-> Undefined, endDate |-> Undefined,
   useCustomRange |-> FALSE, isFutureRange |-> FALSE,
   h |-> Undefined, f |-> Undefined, v1Err |-> Undefined, soapResult |-> Undefined,
   total |-> Undefined, traffic |-> Undefined,
   historicalData |-> Null, forecastData |-> Null,
   historicalErr |-> Null, forecastErr |-> Null,
   attempts |-> <<>>]

\* ------------------------------------------------------- report results
MaxRows == 1
MaxMetric == 1

\* the first dimension value of a result row: a size, or none
RowSizes == {Str("300 x 250"), Str("320x50"), Null}

ForecastRows ==
  {[size |-> s, available |-> a, forecasted |-> f, reserved |-> r] :
     s \in RowSizes, a \in 0..MaxMetric, f \in 0..MaxMetric, r \in 0..MaxMetric}

HistoricalRows == {[size |-> s, impressions |-> i] : s \in RowSizes, i \in 0..MaxMetric}

SeqsUpTo(S, n) == UNION {[1..k -> S] : k \in 0..n}

\* what createReport / runReport / fetchReportResultRowsAsync come to
ReportOutcomes(src, rowSet) ==
  {[k |-> "throws", err |-> e] : e \in Thrown(src)}
  \cup {[k |-> "no-result"]}
  \cup {[k |-> "rows", rows |-> r] : r \in SeqsUpTo(rowSet, MaxRows)}

\* bySize[s].field += value, the entry created at zero when absent
AddTo(bySize, s, zero, field, value) ==
  LET cur == IF s \in DOMAIN bySize THEN bySize[s] ELSE zero
  IN [k \in DOMAIN bySize \cup {s} |->
        IF k = s THEN [cur EXCEPT ![field] = @ + value] ELSE bySize[k]]

EmptyMap == [k \in {} |-> 0]

\* the row loop of _getInventoryForecast
RECURSIVE ForecastBySize(_)
ForecastBySize(rows) ==
  IF rows = <<>> THEN EmptyMap
  ELSE LET before == ForecastBySize(SubSeq(rows, 1, Len(rows) - 1))
           row == rows[Len(rows)]
           zero == [available |-> 0, forecasted |-> 0, reserved |-> 0]
       IN IF row.size = Null THEN before
          ELSE LET s == StripWhitespace(row.size.v)
               IN AddTo(AddTo(AddTo(before, s, zero, "available", row.available),
                              s, zero, "forecasted", row.forecasted),
                        s, zero, "reserved", row.reserved)

\* the row loop of _getInventoryHistorical
RECURSIVE HistoricalBySize(_)
HistoricalBySize(rows) ==
  IF rows = <<>> THEN EmptyMap
  ELSE LET before == HistoricalBySize(SubSeq(rows, 1, Len(rows) - 1))
           row == rows[Len(rows)]
       IN IF row.size = Null THEN before
          ELSE AddTo(before, StripWhitespace(row.size.v), [impressions |-> 0],
                     "impressions", row.impressions)

Result(data, error) == [data |-> data, error |-> error]

NoResultMessage == "Report run returned no result"

\* the historical source leaving the error unset when the run has no result
_getInventoryHistoricalSilent(ok, report) ==
  IF getClientOptions(ok).k = "throws"
  THEN Result(Null, ErrMessage(getClientOptions(ok).err))
  ELSE CASE report.k = "throws" -> Result(Null, ErrMessage(report.err))
         [] report.k = "no-result" -> Result(Null, Null)
         [] report.k = "rows" -> Result(Obj(HistoricalBySize(report.rows)), Null)

\* _getInventoryHistorical(startStr, endStr, useFixedRange)
_getInventoryHistorical(ok, report) ==
  IF getClientOptions(ok).k = "throws"
  THEN Result(Null, ErrMessage(getClientOptions(ok).err))
  ELSE CASE report.k = "throws" -> Result(Null, ErrMessage(report.err))
         [] report.k = "no-result" -> Result(Null, Str(NoResultMessage))
         [] report.k = "rows" -> Result(Obj(HistoricalBySize(report.rows)), Null)

\* the try block of _getInventoryForecast: a result, or the error caught
ForecastReport(ok, report) ==
  IF getClientOptions(ok).k = "throws"
  THEN [k |-> "caught", v1Err |-> getClientOptions(ok).err]
  ELSE CASE report.k = "throws" -> [k |-> "caught", v1Err |-> report.err]
         [] report.k = "no-result" ->
              [k |-> "return", f |-> Result(Null, Str(NoResultMessage))]
         [] report.k = "rows" ->
              [k |-> "return", f |-> Result(Obj(ForecastBySize(report.rows)), Null)]

\* ------------------------------------------------- the legacy traffic call
MaxSeries == 1

TokenOutcomes ==
  {[k |-> "throws", err |-> e] : e \in Thrown("token")}
  \cup {[k |-> "value", v |-> Str("ya29")], [k |-> "value", v |-> Null]}

\* listAdUnits and the search for the root unit: the id found, an empty
\* id, or none
AdUnitOutcomes ==
  {[k |-> "throws"], [k |-> "value", v |-> Null],
   [k |-> "value", v |-> Str("")], [k |-> "value", v |-> Str("101")]}

\* the InventoryService lookup of getRootAdUnitId
RootLookupOutcomes ==
  {[k |-> "throws", err |-> e] : e \in Thrown("rootAdUnit")}
  \cup {[k |-> "value", v |-> Null], [k |-> "value", v |-> Str("7")]}

\* the ForecastService response: an error, a response without
\* forecastedTimeSeries values, or the values
TrafficOutcomes ==
  {[k |-> "throws", err |-> e] : e \in Thrown("traffic")}
  \cup {[k |-> "response", values |-> Undefined]}
  \cup {[k |-> "response", values |-> Obj(v)] : v \in SeqsUpTo({MaxMetric, 12345}, MaxSeries)}

\* _getRestAccessToken()
_getRestAccessToken(ok, token) ==
  IF getClientOptions(ok).k = "throws" THEN [k |-> "throws", err |-> getClientOptions(ok).err]
  ELSE token

\* getRootAdUnitId(networkCode, accessToken, v1RootId)
getRootAdUnitId(v1RootId, lookup) == IF Truthy(v1RootId) THEN [k |-> "value", v |-> v1RootId] ELSE lookup

RECURSIVE SumSeq(_)
SumSeq(q) == IF q = <<>> THEN 0 ELSE q[1] + SumSeq(Tail(q))

\* getTrafficData(...): the sum of the series, 0 without values
getTrafficData(traffic) ==
  IF traffic.k = "throws" THEN traffic
  ELSE [k |-> "value", v |-> IF ~Truthy(traffic.values) THEN 0 ELSE SumSeq(traffic.values.v)]

TotalBucket(total) ==
  [k \in {"_total"} |-> [forecasted |-> total, available |-> total, reserved |-> 0]]

\* _getTrafficDataSoap(startStr, endStr)
_getTrafficDataSoap(ok, token, units, lookup, traffic) ==
  LET tok == _getRestAccessToken(ok, token)
      v1RootId == IF units.k = "throws" THEN Null ELSE units.v
      root == getRootAdUnitId(IF Truthy(v1RootId) THEN v1RootId ELSE Undefined, lookup)
      total == getTrafficData(traffic)
  IN IF tok.k = "throws" THEN Result(Null, ErrMessage(tok.err))
     ELSE IF ~Truthy(tok.v) THEN Result(Null, Str("No access token"))
     ELSE IF root.k = "throws" THEN Result(Null, ErrMessage(root.err))
     ELSE IF ~Truthy(root.v) THEN Result(Null, Str("Could not get root ad unit"))
     ELSE IF total.k = "throws" THEN Result(Null, ErrMessage(total.err))
     ELSE Result(Obj(TotalBucket(total.v)), Null)

\* _getTrafficDataSoap got as far as calling getTrafficData (line 597)
TrafficCalled(ok, token, units, lookup) ==
  LET tok == _getRestAccessToken(ok, token)
      v1RootId == IF units.k = "throws" THEN Null ELSE units.v
      root == getRootAdUnitId(IF Truthy(v1RootId) THEN v1RootId ELSE Undefined, lookup)
  IN tok.k # "throws" /\ Truthy(tok.v) /\ root.k # "throws" /\ Truthy(root.v)

\* the catch block surfacing the report's error beside the legacy data
ForecastFallbackKeepsError(v1Err, soapResult) ==
  Result(soapResult.data, Or(Or(v1Err.message, soapResult.error), Str(v1Err.string)))

\* the catch block of _getInventoryForecast
ForecastFallback(v1Err, soapResult) ==
  IF soapResult.data # Null THEN soapResult
  ELSE Result(Null, Or(Or(v1Err.message, soapResult.error), Str(v1Err.string)))

\* ----------------------------------------------------- getInventory: rows
FutureUnavailable == "Future forecasting not available (requires Ad Manager 360)"

\* the two errors taken in the other order
LastErrorForecastFirst(historicalErr, forecastErr) == Or(forecastErr, historicalErr)

\* const lastError = historicalErr || forecastErr
LastError(historicalErr, forecastErr) == Or(historicalErr, forecastErr)

\* the row of a preset without its third branch: no data reads as a
\* historical row over an empty report
InventoryRowNoBlank(key, forecastData, historicalData) ==
  IF Truthy(forecastData) THEN
    LET agg == _aggregateForecastByPreset(forecastData.v, key)
    IN [preset |-> key, available |-> agg.available, forecasted |-> agg.forecasted,
        reserved |-> agg.reserved, str |-> agg.str, mode |-> Str("forecast")]
  ELSE
    LET agg == _aggregateForecastByPreset(IF Truthy(historicalData) THEN historicalData.v
                                          ELSE EmptyMap, key)
    IN [preset |-> key, available |-> agg.impressions, forecasted |-> Placeholder,
        reserved |-> Placeholder, str |-> Placeholder, mode |-> Str("historical")]

\* the row of a preset with the impressions of a historical report shown as
\* its forecast
InventoryRowImpressionsAsForecast(key, forecastData, historicalData) ==
  IF Truthy(forecastData) THEN
    LET agg == _aggregateForecastByPreset(forecastData.v, key)
    IN [preset |-> key, available |-> agg.available, forecasted |-> agg.forecasted,
        reserved |-> agg.reserved, str |-> agg.str, mode |-> Str("forecast")]
  ELSE IF Truthy(historicalData) THEN
    LET agg == _aggregateForecastByPreset(historicalData.v, key)
    IN [preset |-> key, available |-> agg.impressions, forecasted |-> agg.impressions,
        reserved |-> Placeholder, str |-> Placeholder, mode |-> Str("forecast")]
  ELSE [preset |-> key, available |-> Placeholder, forecasted |-> Placeholder,
        reserved |-> Placeholder, str |-> Placeholder, mode |-> Null]

\* the row of a preset (lines 472-511)
InventoryRow(key, forecastData, historicalData) ==
  IF Truthy(forecastData) THEN
    LET agg == _aggregateForecastByPreset(forecastData.v, key)
    IN [preset |-> key, available |-> agg.available, forecasted |-> agg.forecasted,
        reserved |-> agg.reserved, str |-> agg.str, mode |-> Str("forecast")]
  ELSE IF Truthy(historicalData) THEN
    LET agg == _aggregateForecastByPreset(historicalData.v, key)
    IN [preset |-> key, available |-> agg.impressions, forecasted |-> Placeholder,
        reserved |-> Placeholder, str |-> Placeholder, mode |-> Str("historical")]
  ELSE [preset |-> key, available |-> Placeholder, forecasted |-> Placeholder,
        reserved |-> Placeholder, str |-> Placeholder, mode |-> Null]

\* the value getInventory returns (lines 470-519)
InventoryResult(v) ==
  [rows |-> [i \in 1..Len(v.which) |->
               InventoryRow(v.which[i], v.forecastData, v.historicalData)],
   startStr |-> v.startStr,
   endStr |-> v.endStr,
   mode |-> IF Truthy(v.forecastData) THEN Str("forecast")
            ELSE IF Truthy(v.historicalData) THEN Str("historical") ELSE Null,
   error |-> LastError(v.historicalErr, v.forecastErr),
   isFutureRange |-> v.isFutureRange]

\* ------------------------------------------------- getInventory: the steps
\* main's option loop and getInventory up to its first await
RangeLocals ==
  LET startDate == parseDate(args.start, tzHours, isoRollover)
      endDate == parseDate(args.end, tzHours, isoRollover)
      r == InventoryRange(args.preset, startDate, endDate, NowSec)
  IN [inv EXCEPT !.startDate = startDate, !.endDate = endDate,
                 !.which = r.which, !.startStr = r.startStr, !.endStr = r.endStr,
                 !.useCustomRange = r.useCustomRange,
                 !.isFutureRange = r.isFutureRange]

\* the date-parsing runs stop once the range is derived
ParseDateArgs ==
  /\ cmd = "inventory" /\ focus = "dates" /\ pc = "start"
  /\ inv' = RangeLocals
  /\ pc' = "parsed"
  /\ UNCHANGED <<aggregate, cmd, focus, tzHours, isoRollover, credentialsOk, args, ord, li, outcome>>

GetInventoryStart ==
  /\ cmd = "inventory" /\ focus = "sources" /\ pc = "start"
  /\ inv' = RangeLocals
  /\ pc' = IF RangeLocals.isFutureRange THEN "forecast" ELSE "historical"
  /\ UNCHANGED <<aggregate, cmd, focus, tzHours, isoRollover, credentialsOk, args, ord, li, outcome>>

\* the forecast attempted whatever the historical report returned
AfterHistoricalAlways(h) == "forecast"

\* if (!historicalData) { const f = await this._getInventoryForecast(...) }
AfterHistorical(h) == IF Truthy(h.data) THEN "rows" ELSE "forecast"

\* const h = await this._getInventoryHistorical(...)
InventoryHistorical ==
  /\ cmd = "inventory" /\ pc = "historical"
  /\ \E report \in ReportOutcomes("historical", HistoricalRows) :
       LET h == _getInventoryHistorical(credentialsOk, report)
       IN /\ inv' = [inv EXCEPT !.h = h, !.historicalData = h.data,
                                !.historicalErr = h.error,
                                !.attempts = Append(@, "historical")]
          /\ pc' = AfterHistorical(h)
  /\ UNCHANGED <<aggregate, cmd, focus, tzHours, isoRollover, credentialsOk, args, ord, li, outcome>>

\* the result taken without the default message of line 458
TakeForecastNoDefault(v, f) ==
  [v EXCEPT !.f = f, !.forecastData = f.data, !.forecastErr = f.error,
            !.historicalData = IF v.isFutureRange /\ ~Truthy(f.data) THEN Null ELSE @,
            !.historicalErr = IF v.isFutureRange /\ ~Truthy(f.data) THEN f.error ELSE @]

\* getInventory takes the result f of _getInventoryForecast (lines 453-459
\* in a future range, 465-467 otherwise)
TakeForecast(v, f) ==
  [v EXCEPT !.f = f, !.forecastData = f.data, !.forecastErr = f.error,
            !.historicalData = IF v.isFutureRange /\ ~Truthy(f.data) THEN Null ELSE @,
            !.historicalErr = IF v.isFutureRange /\ ~Truthy(f.data)
                              THEN Or(f.error, Str(FutureUnavailable)) ELSE @]

\* _getInventoryForecast: the structured FUTURE_SELL_THROUGH report
InventoryForecastReport ==
  /\ cmd = "inventory" /\ pc = "forecast"
  /\ \E report \in ReportOutcomes("report", ForecastRows) :
       LET r == ForecastReport(credentialsOk, report)
           logged == [inv EXCEPT !.attempts = Append(@, "report")]
       IN IF r.k = "caught"
          THEN inv' = [logged EXCEPT !.v1Err = r.v1Err] /\ pc' = "soap"
          ELSE inv' = TakeForecast(logged, r.f) /\ pc' = "rows"
  /\ UNCHANGED <<aggregate, cmd, focus, tzHours, isoRollover, credentialsOk, args, ord, li, outcome>>

\* _getInventoryForecast's catch block: the legacy call, then the return
InventoryTrafficDataSoap ==
  /\ cmd = "inventory" /\ pc = "soap"
  /\ \E token \in TokenOutcomes, units \in AdUnitOutcomes,
        lookup \in RootLookupOutcomes, traffic \in TrafficOutcomes :
       LET soapResult == _getTrafficDataSoap(credentialsOk, token, units, lookup, traffic)
           f == ForecastFallback(inv.v1Err, soapResult)
           logged == [inv EXCEPT !.attempts = Append(@, "soap"),
                                 !.soapResult = soapResult,
                                 !.total = IF soapResult.data # Null
                                           THEN Num(getTrafficData(traffic).v)
                                           ELSE Undefined,
                                 !.traffic =
                                   IF TrafficCalled(credentialsOk, token, units, lookup)
                                   THEN traffic ELSE Undefined]
       IN inv' = TakeForecast(logged, f)
  /\ pc' = "rows"
  /\ UNCHANGED <<aggregate, cmd, focus, tzHours, isoRollover, credentialsOk, args, ord, li, outcome>>

\* the row loop and the return of getInventory
GetInventoryReturn ==
  /\ cmd = "inventory" /\ pc = "rows"
  /\ outcome' = Returned(InventoryResult(inv))
  /\ pc' = "done"
  /\ UNCHANGED <<aggregate, cmd, focus, tzHours, isoRollover, credentialsOk, args, inv, ord, li>>

\* -------------------------------------------------------------- getOrders
MaxOrders == 2
MaxLimit == 2
MaxPages == 2
MaxPageItems == 1

\* 365.25 * 24 * 60 * 60 seconds
SecondsPerYear == 31557600

Bool(b) == [t |-> "boolean", v |-> b]

\* an ISO-8601 timestamp text, held as the instant it denotes
IsoTime(sec) == [t |-> "isotime", v |-> sec]

\* a {seconds, nanos} pair
Timestamp(sec, nanos) == Obj([seconds |-> sec, nanos |-> nanos])

Unparseable == Str("garbage")

\* parseTime(t) of getOrders: null, NaN or a time
parseTimeOrders(t) ==
  IF ~Truthy(t) THEN Null
  ELSE IF t.t = "isotime" THEN Num(t.v)
  ELSE IF t.t = "string" THEN NaN
  ELSE IF t.t = "object" THEN
    (IF "seconds" \in DOMAIN t.v
     THEN Num(t.v.seconds + (IF "nanos" \in DOMAIN t.v THEN t.v.nanos ELSE 0) \div 1000000000)
     ELSE Null)
  ELSE Null

\* status.toLowerCase(), on the --status values of the model
ToLowerCase(x) ==
  CASE x = "DRAFT" -> "draft"
    [] x = "Approved" -> "approved"
    [] x = "ACTIVE" -> "active"
    [] OTHER -> x

\* statusStr.toUpperCase(), on the raw statuses of the model
ToUpperCase(x) ==
  CASE x = "approved" -> "APPROVED"
    [] x = "draft" -> "DRAFT"
    [] OTHER -> x

\* statusMap[status.toLowerCase()]
statusMap(lower) ==
  CASE lower \in {"delivering", "approved", "active"} -> Obj([name |-> "APPROVED", code |-> 3])
    [] lower = "draft" -> Obj([name |-> "DRAFT", code |-> 1])
    [] lower = "pending_approval" -> Obj([name |-> "PENDING_APPROVAL", code |-> 2])
    [] lower = "disapproved" -> Obj([name |-> "DISAPPROVED", code |-> 4])
    [] lower = "paused" -> Obj([name |-> "PAUSED", code |-> 5])
    [] lower = "canceled" -> Obj([name |-> "CANCELED", code |-> 6])
    [] lower = "deleted" -> Obj([name |-> "DELETED", code |-> 7])
    [] OTHER -> Undefined

matchStatusOf(status) == IF Truthy(status) THEN statusMap(ToLowerCase(status.v)) ELSE Null

\* the delivering filter under its own name only
wantOnlyDelivering(status) ==
  Truthy(status) /\ ToLowerCase(status.v) = "delivering"

\* line 145
wantCurrentlyDeliveringOf(status) ==
  Truthy(status) /\ ToLowerCase(status.v) \in {"delivering", "approved", "active"}

\* String(orderStatus || '')
StatusStr(orderStatus) ==
  IF ~Truthy(orderStatus) THEN ""
  ELSE IF orderStatus.t = "number" THEN ToString(orderStatus.v) ELSE orderStatus.v

\* const statusMatch = ... (lines 168-170)
StatusMatches(orderStatus, matchStatus) ==
  \/ ~Truthy(matchStatus)
  \/ orderStatus = Num(matchStatus.v.code)
  \/ ToUpperCase(StatusStr(orderStatus)) = matchStatus.v.name

\* the window check without its one-year floor
OutsideDeliveryWindowNoFloor(startMs, endMs, unlimited, nowMs) ==
  \/ ~Truthy(startMs)
  \/ startMs.v > nowMs
  \/ (~Truthy(unlimited) /\ (~Truthy(endMs) \/ endMs.v < nowMs))

\* lines 188-191: the loop passes over the order
OutsideDeliveryWindow(startMs, endMs, unlimited, nowMs) ==
  \/ ~Truthy(startMs)
  \/ startMs.v > nowMs
  \/ (~Truthy(unlimited) /\ (~Truthy(endMs) \/ endMs.v < nowMs))
  \/ startMs.v < nowMs - SecondsPerYear

statusNumToName(n) ==
  CASE n = 1 -> Str("DRAFT") [] n = 2 -> Str("PENDING_APPROVAL") [] n = 3 -> Str("APPROVED")
    [] n = 4 -> Str("DISAPPROVED") [] n = 5 -> Str("PAUSED") [] n = 6 -> Str("CANCELED")
    [] n = 7 -> Str("DELETED") [] OTHER -> Undefined

\* lines 194-195 alone: the status as listed, its code named
DisplayStatusAsListed(orderStatus, want) ==
  IF orderStatus.t = "number"
  THEN Coalesce(statusNumToName(orderStatus.v), orderStatus)
  ELSE Str(StatusStr(orderStatus))

\* lines 194-196
DisplayStatus(orderStatus, want) ==
  IF want THEN Str("DELIVERING")
  ELSE IF orderStatus.t = "number"
       THEN Coalesce(statusNumToName(orderStatus.v), orderStatus)
       ELSE Str(StatusStr(orderStatus))

Ongoing == <<"O", "n", "g", "o", "i", "n", "g">>

\* startMs ? new Date(startMs).toISOString().slice(0, 10) : '-'
DateOrPlaceholder(ms) == IF Truthy(ms) THEN ToISODate(ms.v) ELSE Placeholder

\* the record pushed for an order (lines 198-211); name, currency and
\* advertiserId are copied through and left out
OrderRecord(order, want) ==
  [id |-> order.id,
   status |-> DisplayStatus(order.status, want),
   startDate |-> DateOrPlaceholder(parseTimeOrders(order.startTime)),
   endDate |-> IF Truthy(order.unlimitedEndTime) THEN Ongoing
               ELSE DateOrPlaceholder(parseTimeOrders(order.endTime)),
   lineItemCount |-> Null,
   impressions |-> Undefined,
   clicks |-> Undefined]

\* orders.length >= limit
ReachedLimit(n, limit) == limit.t = "number" /\ n >= limit.v

\* one pass of the for-await loop over an order (lines 165-213)
OrdersIteration(orders, order, matchStatus, want, limit, nowMs) ==
  IF ~StatusMatches(order.status, matchStatus)
  THEN [orders |-> orders, break |-> FALSE]
  ELSE IF want /\ OutsideDeliveryWindow(parseTimeOrders(order.startTime),
                                        parseTimeOrders(order.endTime),
                                        order.unlimitedEndTime, nowMs)
  THEN [orders |-> orders, break |-> FALSE]
  ELSE LET pushed == Append(orders, OrderRecord(order, want))
       IN [orders |-> pushed, break |-> ReachedLimit(Len(pushed), limit)]

\* the orders a listing may hold. Exploring the listing: every start and
\* end shape under the APPROVED status, and the other statuses on a running
\* order. Exploring the join: one plain order.
Days(n) == n * SecondsPerDay

StartTimes ==
  {Undefined, Unparseable, Timestamp(0, 0), IsoTime(NowSec - Days(400)),
   Timestamp(NowSec - Days(10), 0), IsoTime(NowSec + Days(1))}

EndShapes ==
  {[endTime |-> Undefined, unlimitedEndTime |-> Bool(FALSE)],
   [endTime |-> Undefined, unlimitedEndTime |-> Bool(TRUE)],
   [endTime |-> IsoTime(NowSec - Days(1)), unlimitedEndTime |-> Undefined],
   [endTime |-> IsoTime(NowSec + Days(10)), unlimitedEndTime |-> Bool(FALSE)]}

\* every start on an order that has not ended, every end on an order that
\* has started, and the orders that fail on both sides
StartEndShapes ==
  {[startTime |-> st, endTime |-> IsoTime(NowSec + Days(10)), unlimitedEndTime |-> Bool(FALSE)] :
     st \in StartTimes}
  \cup {[startTime |-> Timestamp(NowSec - Days(10), 0), endTime |-> e.endTime,
         unlimitedEndTime |-> e.unlimitedEndTime] : e \in EndShapes}
  \cup {[startTime |-> IsoTime(NowSec - Days(400)), endTime |-> Undefined,
         unlimitedEndTime |-> Bool(TRUE)],
        [startTime |-> Undefined, endTime |-> Undefined, unlimitedEndTime |-> Undefined]}

RunningOrder(status) ==
  [status |-> status, startTime |-> Timestamp(NowSec - Days(10), 0),
   endTime |-> IsoTime(NowSec + Days(10)), unlimitedEndTime |-> Bool(FALSE)]

OrderShapes(f) ==
  IF f = "listing"
  THEN {[status |-> Num(3), startTime |-> x.startTime, endTime |-> x.endTime,
         unlimitedEndTime |-> x.unlimitedEndTime] : x \in StartEndShapes}
       \cup {RunningOrder(Str("DRAFT")), RunningOrder(Str("approved")),
             RunningOrder(Num(9))}
  ELSE {RunningOrder(Num(3))}

\* order.name.split('/').pop() of the i-th order listed
OrderIdAt(i) == Str(ToString(i))

WithId(shape, i) ==
  [id |-> OrderIdAt(i), status |-> shape.status, startTime |-> shape.startTime,
   endTime |-> shape.endTime, unlimitedEndTime |-> shape.unlimitedEndTime]

\* --limit: parseInt of the option, NaN when it is no number
LimitArgs == {NaN} \cup {Num(n) : n \in 0..MaxLimit}

StatusArgs ==
  {Null, Str("delivering"), Str("DRAFT"), Str("Approved"), Str("ACTIVE"),
   Str("bogus")}

\* the (limit, status) pairs of a run: every limit without a filter and
\* every filter without a limit when exploring the listing
OrderArgs(f) ==
  IF f = "listing"
  THEN {[limit |-> l, status |-> Null] : l \in LimitArgs}
       \cup {[limit |-> NaN, status |-> st] : st \in StatusArgs}
       \cup {[limit |-> Num(1), status |-> Str("delivering")]}
  ELSE {[limit |-> NaN, status |-> Null]}

\* ---------------------------------------------------- metrics of a listing
MetricPairs ==
  {[impressions |-> 200, clicks |-> 10], [impressions |-> 0, clicks |-> 0],
   [impressions |-> 3, clicks |-> 1]}

\* the rows of a metrics report, by the id in their first dimension
MetricsReports(f, ids, pairs) ==
  IF f = "listing" THEN {[k |-> "throws", err |-> ErrorObj("metrics")]}
  ELSE {[k |-> "throws", err |-> ErrorObj("metrics")], [k |-> "no-result"]}
       \cup {[k |-> "rows", rows |-> r] : r \in UNION {[S -> pairs] : S \in SUBSET ids}}

\* _getOrderMetrics(orderIds) and _getLineItemMetrics(lineItemIds): the
\* mapping by id, empty on every failure
MetricsMap(ok, ids, report) ==
  IF ids = {} THEN EmptyMap
  ELSE IF getClientOptions(ok).k = "throws" THEN EmptyMap
  ELSE IF report.k = "rows" THEN report.rows
  ELSE EmptyMap

_getOrderMetrics(ok, ids, report) == MetricsMap(ok, ids, report)

\* the lookup without its default: an absent id yields no count (-1)
MetricOfNoDefault(metrics, id, field) == IF id \in DOMAIN metrics THEN metrics[id][field] ELSE 0 - 1

\* metrics[o.id]?.impressions ?? 0 and metrics[o.id]?.clicks ?? 0
MetricOf(metrics, id, field) == IF id \in DOMAIN metrics THEN metrics[id][field] ELSE 0

\* the count of another order, when the mapping holds one
CountOfOther(lineCounts, id) ==
  IF DOMAIN lineCounts = {} THEN 0
  ELSE lineCounts[CHOOSE k \in DOMAIN lineCounts : \A o \in DOMAIN lineCounts : k = o \/ k # id]

\* lineCounts[o.id] ?? 0
CountOf(lineCounts, id) == IF id \in DOMAIN lineCounts THEN lineCounts[id] ELSE 0

\* orders.forEach(o => ...) (lines 221-225)
MergeOrders(orders, lineCounts, metrics) ==
  [i \in 1..Len(orders) |->
     [orders[i] EXCEPT !.lineItemCount = Num(CountOf(lineCounts, orders[i].id.v)),
                       !.impressions = Num(MetricOf(metrics, orders[i].id.v, "impressions")),
                       !.clicks = Num(MetricOf(metrics, orders[i].id.v, "clicks"))]]

OrdBlank ==
  [matchStatus |-> Null, wantCurrentlyDelivering |-> FALSE,
   listed |-> <<>>, orders |-> <<>>,
   token |-> Undefined, orderIds |-> <<>>, lookups |-> <<>>, totalCounts |-> EmptyMap,
   report |-> "none", metrics |-> Undefined]

OrderIds(orders) == {orders[i].id.v : i \in 1..Len(orders)}

\* ---------------------------------------------------- getOrders: the steps
\* lines 123-149: the client is built before anything is awaited
GetOrdersStart ==
  /\ cmd = "orders" /\ pc = "start"
  /\ IF getClientOptions(credentialsOk).k = "throws"
     THEN /\ outcome' = Threw(getClientOptions(credentialsOk).err)
          /\ pc' = "done"
          /\ ord' = ord
     ELSE /\ ord' = [ord EXCEPT !.matchStatus = matchStatusOf(args.status),
                                !.wantCurrentlyDelivering = wantCurrentlyDeliveringOf(args.status)]
          /\ pc' = "list"
          /\ outcome' = outcome
  /\ UNCHANGED <<aggregate, cmd, focus, tzHours, isoRollover, credentialsOk, args, inv, li>>

\* the listing yields its next order
OrdersNext ==
  /\ cmd = "orders" /\ pc = "list"
  /\ Len(ord.listed) < MaxOrders
  /\ \E shape \in OrderShapes(focus) :
       LET order == WithId(shape, Len(ord.listed) + 1)
           it == OrdersIteration(ord.orders, order, ord.matchStatus,
                                 ord.wantCurrentlyDelivering, args.limit, NowSec)
       IN /\ ord' = [ord EXCEPT !.listed = Append(@, order), !.orders = it.orders]
          /\ pc' = IF it.break THEN "token" ELSE "list"
  /\ UNCHANGED <<aggregate, cmd, focus, tzHours, isoRollover, credentialsOk, args, inv, li, outcome>>

\* the listing is exhausted
OrdersListEnd ==
  /\ cmd = "orders" /\ pc = "list"
  /\ pc' = "token"
  /\ UNCHANGED <<aggregate, cmd, focus, tzHours, isoRollover, credentialsOk, args, inv, ord, li, outcome>>

\* a page of the listing fails: the iterator throws out of getOrders
OrdersListFails ==
  /\ cmd = "orders" /\ pc = "list"
  /\ outcome' = Threw(ErrorObj("listOrders"))
  /\ pc' = "done"
  /\ UNCHANGED <<aggregate, cmd, focus, tzHours, isoRollover, credentialsOk, args, inv, ord, li>>

OrderTokenOutcomes(f) ==
  IF f = "listing" THEN {[k |-> "value", v |-> Null]} ELSE TokenOutcomes

\* const token = await this._getRestAccessToken(); then both lookups start
OrdersToken ==
  /\ cmd = "orders" /\ pc = "token"
  /\ \E token \in OrderTokenOutcomes(focus) :
       LET tok == _getRestAccessToken(credentialsOk, token)
           n == Len(ord.orders)
       IN IF tok.k = "throws"
          THEN /\ outcome' = Threw(tok.err)
               /\ pc' = "done"
               /\ ord' = ord
          ELSE /\ ord' = [ord EXCEPT
                            !.token = tok.v,
                            !.orderIds = [i \in 1..n |-> ord.orders[i].id],
                            !.lookups = [i \in 1..n |->
                                           [state |-> IF Truthy(tok.v) THEN "pending" ELSE "skipped",
                                            count |-> 0, pages |-> 0]]]
               /\ pc' = "join"
               /\ outcome' = outcome
  /\ UNCHANGED <<aggregate, cmd, focus, tzHours, isoRollover, credentialsOk, args, inv, li>>

\* _getLineItemCounts: one page fetch of the lookup of the i-th order
LineItemCountsPage(i) ==
  /\ cmd = "orders" /\ pc = "join"
  /\ ord.lookups[i].state = "pending"
  /\ LET l == ord.lookups[i]
         id == ord.orders[i].id.v
         set(count) == [k \in DOMAIN ord.totalCounts \cup {id} |->
                          IF k = id THEN count ELSE ord.totalCounts[k]]
     IN \/ \* fetch or res.json() throws: the Promise.all rejects
           /\ outcome' = Threw(ErrorObj("lineItems"))
           /\ pc' = "done"
           /\ ord' = [ord EXCEPT !.lookups[i] = [state |-> "threw", count |-> 0, pages |-> 0]]
        \/ \* !res.ok
           /\ ord' = [ord EXCEPT !.lookups[i] = [state |-> "failed", count |-> 0, pages |-> 0],
                              !.totalCounts = set(0)]
           /\ UNCHANGED <<pc, outcome>>
        \/ \* a page with a nextPageToken
           /\ l.pages + 1 < MaxPages
           /\ \E items \in 0..MaxPageItems :
                ord' = [ord EXCEPT !.lookups[i].count = @ + items,
                                   !.lookups[i].pages = @ + 1]
           /\ UNCHANGED <<pc, outcome>>
        \/ \* the last page
           /\ \E items \in 0..MaxPageItems :
                ord' = [ord EXCEPT !.lookups[i] = [state |-> "done", count |-> l.count + items,
                                                      pages |-> 0],
                                   !.totalCounts = set(l.count + items)]
           /\ UNCHANGED <<pc, outcome>>
  /\ UNCHANGED <<aggregate, cmd, focus, tzHours, isoRollover, credentialsOk, args, inv, li>>

\* this._getOrderMetrics(orderIds), running beside the lookups
OrderMetrics ==
  /\ cmd = "orders" /\ pc = "join"
  /\ ord.metrics = Undefined
  /\ \E report \in MetricsReports(focus, OrderIds(ord.orders),
                                   {[impressions |-> 200, clicks |-> 10]}) :
       ord' = [ord EXCEPT !.report = report.k,
                          !.metrics =
                            Obj(_getOrderMetrics(credentialsOk, OrderIds(ord.orders), report))]
  /\ UNCHANGED <<aggregate, cmd, focus, pc, tzHours, isoRollover, credentialsOk, args, inv, li, outcome>>

\* both promises have resolved: the merge and the return
OrdersMerge ==
  /\ cmd = "orders" /\ pc = "join"
  /\ ord.metrics # Undefined
  /\ \A i \in 1..Len(ord.lookups) : ord.lookups[i].state # "pending"
  /\ LET lineCounts == IF Truthy(ord.token) THEN ord.totalCounts ELSE EmptyMap
         merged == MergeOrders(ord.orders, lineCounts, ord.metrics.v)
     IN /\ ord' = [ord EXCEPT !.orders = merged]
        /\ outcome' = Returned(merged)
  /\ pc' = "done"
  /\ UNCHANGED <<aggregate, cmd, focus, tzHours, isoRollover, credentialsOk, args, inv, li>>

\* ----------------------------------------------------------- getLineItems
MaxLineItems == 2

\* parseTime(t) of getLineItems: Date.parse, null when it yields NaN
parseTimeLineItems(t) ==
  IF ~Truthy(t) THEN Null
  ELSE IF t.t = "isotime" THEN Num(t.v)
  ELSE Null

\* parseInt(text, 10): an optional sign and leading digits, NaN otherwise
parseInt10(text) ==
  LET neg == Len(text) > 0 /\ text[1] = "-"
      body == IF neg THEN Tail(text) ELSE text
  IN IF body = <<>> \/ \E i \in 1..Len(body) : ~IsDigit(body[i]) THEN NaN
     ELSE Num(IF neg THEN 0 - ParseInt(body) ELSE ParseInt(body))

Goal(units, unitType) == Obj([units |-> units, unitType |-> unitType])

\* li.goal?.units != null ? parseInt(li.goal.units, 10) : null
goalUnitsOf(item) ==
  IF IsNullish(item.goal) \/ IsNullish(item.goal.v.units) THEN Null
  ELSE parseInt10(item.goal.v.units.v)

\* li.goal?.unitType ?? 'UNIT_TYPE_UNSPECIFIED'
goalUnitTypeOf(item) ==
  IF IsNullish(item.goal) THEN Str("UNIT_TYPE_UNSPECIFIED")
  ELSE Coalesce(item.goal.v.unitType, Str("UNIT_TYPE_UNSPECIFIED"))

\* the record built for a line item (lines 370-387); name, orderId, status
\* and lineItemType are copied through and left out
LineItemRecord(item) ==
  [id |-> item.id,
   startDate |-> DateOrPlaceholder(parseTimeLineItems(item.startTime)),
   endDate |-> DateOrPlaceholder(parseTimeLineItems(item.endTime)),
   goalUnits |-> goalUnitsOf(item),
   goalUnitType |-> goalUnitTypeOf(item)]

\* the object key a line item's id is looked up under
IdKey(id) == IF id.t = "string" THEN id.v ELSE "undefined"

\* the rate kept to one decimal
CtrOneDecimal(clicks, impressions) ==
  IF impressions > 0 THEN PercentFixed(clicks, impressions, 1) ELSE Placeholder

\* li.impressions > 0 ? ((li.clicks / li.impressions) * 100).toFixed(2) + '%' : '-'
Ctr(clicks, impressions) ==
  IF impressions > 0 THEN PercentFixed(clicks, impressions, 2) ELSE Placeholder

\* the impressions whatever the unit of the goal
DeliveredImpressions(goalUnitType, clicks, impressions) == impressions

\* li.goalUnitType === 'CLICKS' ? li.clicks : li.impressions
Delivered(goalUnitType, clicks, impressions) ==
  IF goalUnitType = Str("CLICKS") THEN clicks ELSE impressions

\* lines 394-399
Progress(goalUnits, delivered) ==
  IF goalUnits.t = "number" /\ goalUnits.v > 0
  THEN PercentFixed(delivered, goalUnits.v, 1)
  ELSE Placeholder

\* lineItems.forEach(li => ...) (lines 390-400)
WithMetrics(rec, metrics) ==
  LET impressions == MetricOf(metrics, IdKey(rec.id), "impressions")
      clicks == MetricOf(metrics, IdKey(rec.id), "clicks")
  IN [id |-> rec.id, startDate |-> rec.startDate, endDate |-> rec.endDate,
      goalUnits |-> rec.goalUnits, goalUnitType |-> rec.goalUnitType,
      impressions |-> Num(impressions),
      clicks |-> Num(clicks),
      ctr |-> Ctr(clicks, impressions),
      progress |-> Progress(rec.goalUnits,
                            Delivered(rec.goalUnitType, clicks, impressions))]

_getLineItemMetrics(ok, ids, report) == MetricsMap(ok, ids, report)

\* the line items a page may hold: every start and every end with a goal
\* in clicks, every goal on fixed dates, and an item without a name
LineItemTimes == {Undefined, Unparseable, IsoTime(0), IsoTime(NowSec - Days(10))}

GoalUnits == {Undefined, Text(<<"0">>), Text(<<"1", "0", "0", "0">>), Text(<<"-", "1">>)}

GoalUnitTypes == {Undefined, Str("CLICKS"), Str("IMPRESSIONS")}

LineItemShapes ==
  {[named |-> TRUE, startTime |-> a, endTime |-> IsoTime(NowSec + Days(10)),
    goal |-> Goal(Text(<<"1", "0", "0", "0">>), Str("CLICKS"))] : a \in LineItemTimes}
  \cup {[named |-> TRUE, startTime |-> IsoTime(NowSec - Days(10)), endTime |-> b,
         goal |-> Goal(Text(<<"1", "0", "0", "0">>), Str("CLICKS"))] : b \in LineItemTimes}
  \cup {[named |-> TRUE, startTime |-> Undefined, endTime |-> IsoTime(NowSec + Days(10)),
         goal |-> Goal(u, Str("CLICKS"))] : u \in GoalUnits}
  \cup {[named |-> TRUE, startTime |-> Undefined, endTime |-> IsoTime(NowSec + Days(10)),
         goal |-> Goal(Text(<<"1", "0", "0", "0">>), t)] : t \in GoalUnitTypes}
  \cup {[named |-> n, startTime |-> Undefined, endTime |-> Undefined, goal |-> Undefined] :
          n \in BOOLEAN}

LineItemAt(shape, i) ==
  [id |-> IF shape.named THEN Str(ToString(i)) ELSE Undefined,
   startTime |-> shape.startTime, endTime |-> shape.endTime, goal |-> shape.goal]

LiBlank == [items |-> <<>>, lineItems |-> <<>>, report |-> "none", metrics |-> Undefined]

\* lineItems.map(li => li.id).filter(Boolean)
LineItemIds(items) == {items[i].id.v : i \in {j \in 1..Len(items) : Truthy(items[j].id)}}

\* --------------------------------------------------- getLineItems: the steps
\* const accessToken = await this._getRestAccessToken()
GetLineItemsToken ==
  /\ cmd = "line-items" /\ pc = "start"
  /\ \E token \in TokenOutcomes :
       LET tok == _getRestAccessToken(credentialsOk, token)
       IN IF tok.k = "throws"
          THEN outcome' = Threw(tok.err) /\ pc' = "done"
          ELSE IF ~Truthy(tok.v)
          THEN outcome' = Threw(ErrorObj("Failed to obtain access token")) /\ pc' = "done"
          ELSE outcome' = outcome /\ pc' = "fetch"
  /\ UNCHANGED <<aggregate, cmd, focus, tzHours, isoRollover, credentialsOk, args, inv, ord, li>>

\* the page of line items arrives and is mapped to records
GetLineItemsFetch ==
  /\ cmd = "line-items" /\ pc = "fetch"
  /\ \E items \in SeqsUpTo(LineItemShapes, MaxLineItems) :
       LET page == [i \in 1..Len(items) |-> LineItemAt(items[i], i)]
       IN li' = [li EXCEPT !.items = page,
                           !.lineItems = [i \in 1..Len(page) |-> LineItemRecord(page[i])]]
  /\ pc' = "metrics"
  /\ UNCHANGED <<aggregate, cmd, focus, tzHours, isoRollover, credentialsOk, args, inv, ord, outcome>>

\* fetch throws, or the response is not ok
GetLineItemsFetchFails ==
  /\ cmd = "line-items" /\ pc = "fetch"
  /\ \E e \in {ErrorObj("fetch"), ErrorObj("Ad Manager API")} : outcome' = Threw(e)
  /\ pc' = "done"
  /\ UNCHANGED <<aggregate, cmd, focus, tzHours, isoRollover, credentialsOk, args, inv, ord, li>>

\* const metrics = await this._getLineItemMetrics(lineItemIds); the merge
GetLineItemsMetrics ==
  /\ cmd = "line-items" /\ pc = "metrics"
  /\ \E report \in MetricsReports(focus, LineItemIds(li.lineItems), MetricPairs) :
       LET metrics == _getLineItemMetrics(credentialsOk, LineItemIds(li.lineItems), report)
           merged == [i \in 1..Len(li.lineItems) |-> WithMetrics(li.lineItems[i], metrics)]
       IN /\ li' = [li EXCEPT !.lineItems = merged, !.report = report.k,
                                !.metrics = Obj(metrics)]
          /\ outcome' = Returned(merged)
  /\ pc' = "done"
  /\ UNCHANGED <<aggregate, cmd, focus, tzHours, isoRollover, credentialsOk, args, inv, ord>>

\* ------------------------------------- _aggregateForecastByPreset, by steps
\* The aggregator statement by statement, called the way getInventory calls
\* it: once for every preset of a family, on one map. The family is walked
\* twice, so that every call has a second call on the same map and preset.
MaxEntries == 2

\* One [size, data] pair of Object.entries(bySize).
Entry(size, data) == [size |-> size, data |-> data]

\* An INVENTORY_PRESETS value: sizeFilter is null or a predicate, here the set
\* of the normalised sizes the predicate accepts.
SizeFilter(accepts) == [t |-> "function", accepts |-> accepts]

InventoryPreset(key, sizeFilter) == [key |-> key, sizeFilter |-> sizeFilter]

INVENTORY_PRESETS ==
  <<InventoryPreset("run-of-site", Null),
    InventoryPreset("desktop", SizeFilter(DesktopSizes)),
    InventoryPreset("mobile", SizeFilter(MobileSizes))>>

\* bySize._total: the value under the sentinel key, undefined without it.
TotalOf(bySize) ==
  IF \E i \in 1..Len(bySize) : bySize[i].size = "_total"
  THEN bySize[CHOOSE i \in 1..Len(bySize) : bySize[i].size = "_total"].data
  ELSE Undefined

\* the rate with the test on reserved instead of forecasted
SellThroughByReserved(reserved, forecasted) ==
  IF reserved > 0
  THEN IF forecasted > 0 THEN PercentFixed(reserved, forecasted, 1)
       ELSE <<"I", "n", "f", "i", "n", "i", "t", "y", "%">>
  ELSE Placeholder

\* forecasted > 0 ? ((reserved / forecasted) * 100).toFixed(1) + '%' : '-'
SellThrough(reserved, forecasted) ==
  IF forecasted > 0 THEN PercentFixed(reserved, forecasted, 1) ELSE Placeholder

\* the row of the _total bucket with available and forecasted swapped
TotalRowSwapped(t) ==
  [available |-> ToLocaleString(t.forecasted),
   forecasted |-> ToLocaleString(t.available),
   reserved |-> ToLocaleString(t.reserved),
   str |-> SellThrough(t.reserved, t.forecasted),
   impressions |-> ToLocaleString(t.forecasted)]

\* The row of a map holding the _total bucket t (lines 656-663).
TotalRow(t) ==
  [available |-> ToLocaleString(t.available),
   forecasted |-> ToLocaleString(t.forecasted),
   reserved |-> ToLocaleString(t.reserved),
   str |-> SellThrough(t.reserved, t.forecasted),
   impressions |-> ToLocaleString(t.forecasted)]

\* let available = 0, forecasted = 0, reserved = 0, impressions = 0;
\* let hasImpressionData = false;
ZeroLocals ==
  [available |-> 0, forecasted |-> 0, reserved |-> 0, impressions |-> 0,
   hasImpressionData |-> FALSE]

\* the locals as the call before left them
LocalsKept(left) == left

\* The locals are declared in the function body: each call starts from zero,
\* whatever the call before left behind.
LocalsAtCall(left) == ZeroLocals

\* the filter never consulted
IncludeEverySize(preset, norm) == TRUE

\* the filter consulted only when there is one, a null filter accepting nothing
IncludeNullRejects(preset, norm) ==
  preset.sizeFilter # Null /\ norm \in preset.sizeFilter.accepts

\* preset.sizeFilter === null || preset.sizeFilter(norm)
Include(preset, norm) ==
  preset.sizeFilter = Null \/ norm \in preset.sizeFilter.accepts

\* One turn of the loop over Object.entries(bySize).
AccumulateEntry(l, preset, e) ==
  IF ~Include(preset, StripWhitespace(e.size)) THEN l
  ELSE IF "impressions" \in DOMAIN e.data
       THEN [l EXCEPT !.impressions = @ + e.data.impressions,
                      !.hasImpressionData = TRUE]
       ELSE [l EXCEPT !.available = @ + e.data.available,
                      !.forecasted = @ + e.data.forecasted,
                      !.reserved = @ + e.data.reserved]

\* The statements after the loop.
AggregatedRow(l) ==
  IF l.hasImpressionData THEN [impressions |-> ToLocaleString(l.impressions)]
  ELSE [available |-> ToLocaleString(l.available),
        forecasted |-> ToLocaleString(l.forecasted),
        reserved |-> ToLocaleString(l.reserved),
        str |-> SellThrough(l.reserved, l.forecasted),
        impressions |-> ToLocaleString(l.impressions)]

\* The inputs: size keys as the sources spell them, buckets of both shapes.
AggSizes == {"300 x 250", "320x50", "970x250", "120x600"}

ForecastBuckets ==
  {[available |-> 0, forecasted |-> 0, reserved |-> 0],
   [available |-> 0, forecasted |-> 0, reserved |-> 7],
   [available |-> 2, forecasted |-> 3, reserved |-> 1],
   [available |-> 900, forecasted |-> 1500, reserved |-> 600]}

HistoricalBuckets == {[impressions |-> 0], [impressions |-> 1200]}

RECURSIVE EntriesUpTo(_, _)
EntriesUpTo(buckets, n) ==
  IF n = 0 THEN {<<>>}
  ELSE LET shorter == EntriesUpTo(buckets, n - 1)
       IN shorter \cup
          {Append(m, Entry(s, b)) :
             m \in {x \in shorter : Len(x) = n - 1},
             s \in AggSizes, b \in buckets}

DistinctSizes(m) == \A i, j \in 1..Len(m) : i # j => m[i].size # m[j].size

\* A map never holds both shapes.
SizeMetricsMaps ==
  {m \in EntriesUpTo(ForecastBuckets, MaxEntries) : DistinctSizes(m)}
  \cup {m \in EntriesUpTo(HistoricalBuckets, MaxEntries) : DistinctSizes(m)}
  \cup {<<Entry("_total", b)>> : b \in ForecastBuckets}

\* The families of presets: the three of the program, the catch-all alone, and
\* two filters that split the sizes between them.
PresetFamilies ==
  {INVENTORY_PRESETS,
   <<INVENTORY_PRESETS[1]>>,
   <<InventoryPreset("display", SizeFilter({"300x250", "970x250"})),
     InventoryPreset("other", SizeFilter({"320x50", "120x600"}))>>}

AggBlank ==
  [given |-> <<>>, bySize |-> <<>>, family |-> <<>>, call |-> 0, i |-> 0,
   locals |-> ZeroLocals, rows |-> <<>>]

\* The preset of the call in progress.
PresetOfCall(a, k) == a.family[((k - 1) % Len(a.family)) + 1]

AfterCall(a) == IF a.call = 2 * Len(a.family) THEN "done" ELSE "call"

\* Entry of the function: a _total bucket (an object, so truthy) is returned
\* at once; otherwise the locals are declared and the loop begins.
AggregateCall ==
  /\ cmd = "aggregate" /\ pc = "call"
  /\ IF TotalOf(aggregate.bySize) # Undefined
     THEN /\ aggregate' =
               [aggregate EXCEPT
                  !.rows = Append(@, TotalRow(TotalOf(aggregate.bySize))),
                  !.call = @ + 1]
          /\ pc' = AfterCall(aggregate')
     ELSE /\ aggregate' = [aggregate EXCEPT !.locals = LocalsAtCall(@), !.i = 1]
          /\ pc' = "loop"
  /\ UNCHANGED <<cmd, focus, tzHours, isoRollover, credentialsOk, args, inv, ord,
                 li, outcome>>

AggregateEntry ==
  /\ cmd = "aggregate" /\ pc = "loop"
  /\ aggregate.i <= Len(aggregate.bySize)
  /\ aggregate' =
       [aggregate EXCEPT
          !.locals = AccumulateEntry(@, PresetOfCall(aggregate, aggregate.call + 1),
                                     aggregate.bySize[aggregate.i]),
          !.i = @ + 1]
  /\ UNCHANGED <<cmd, focus, pc, tzHours, isoRollover, credentialsOk, args, inv,
                 ord, li, outcome>>

AggregateReturn ==
  /\ cmd = "aggregate" /\ pc = "loop"
  /\ aggregate.i > Len(aggregate.bySize)
  /\ aggregate' = [aggregate EXCEPT !.rows = Append(@, AggregatedRow(aggregate.locals)),
                                    !.call = @ + 1]
  /\ pc' = AfterCall(aggregate')
  /\ UNCHANGED <<cmd, focus, tzHours, isoRollover, credentialsOk, args, inv, ord,
                 li, outcome>>

\* ---------------------------------------------------------- specification
Init ==
  /\ pc = "start"
  /\ outcome = Running
  /\ inv = InvBlank
  /\ ord = OrdBlank
  /\ li = LiBlank
  /\ aggregate = AggBlank
  /\ \/ /\ cmd = "inventory" /\ focus = "dates"
        /\ tzHours \in TzOffsets
        /\ isoRollover \in BOOLEAN
        /\ credentialsOk = TRUE
        /\ \E p \in DateArgPairs :
             args = [preset |-> Undefined, start |-> p.start, end |-> p.end]
     \/ /\ cmd = "inventory" /\ focus = "sources"
        /\ tzHours = 0
        /\ isoRollover = TRUE
        /\ credentialsOk \in BOOLEAN
        /\ \E p \in InventoryArgPairs, preset \in PresetArgs :
             args = [preset |-> preset, start |-> p.start, end |-> p.end]
     \/ /\ cmd = "orders" /\ focus \in {"listing", "join"}
        /\ tzHours = 0
        /\ isoRollover = TRUE
        /\ credentialsOk \in BOOLEAN
        /\ args \in OrderArgs(focus)
     \/ /\ cmd = "line-items" /\ focus = "join"
        /\ tzHours = 0
        /\ isoRollover = TRUE
        /\ credentialsOk \in BOOLEAN
        /\ args = [limit |-> Num(10)]

Next ==
  \/ ParseDateArgs
  \/ GetInventoryStart
  \/ InventoryHistorical
  \/ InventoryForecastReport
  \/ InventoryTrafficDataSoap
  \/ GetInventoryReturn
  \/ GetOrdersStart
  \/ OrdersNext
  \/ OrdersListEnd
  \/ OrdersListFails
  \/ OrdersToken
  \/ \E i \in 1..MaxOrders : i <= Len(ord.lookups) /\ LineItemCountsPage(i)
  \/ OrderMetrics
  \/ OrdersMerge
  \/ GetLineItemsToken
  \/ GetLineItemsFetch
  \/ GetLineItemsFetchFails
  \/ GetLineItemsMetrics

Spec == Init /\ [][Next]_vars

\* The aggregator on its own: every map and family of the input sets.
InitAggregate ==
  /\ cmd = "aggregate" /\ focus = "aggregate"
  /\ pc = "call"
  /\ outcome = Running
  /\ tzHours = 0
  /\ isoRollover = TRUE
  /\ credentialsOk = TRUE
  /\ args = [preset |-> Undefined]
  /\ inv = InvBlank
  /\ ord = OrdBlank
  /\ li = LiBlank
  /\ \E m \in SizeMetricsMaps, f \in PresetFamilies :
       aggregate = [AggBlank EXCEPT !.given = m, !.bySize = m, !.family = f]

NextAggregate ==
  \/ AggregateCall
  \/ AggregateEntry
  \/ AggregateReturn

SpecAggregate == InitAggregate /\ [][NextAggregate]_vars

\* ------------------------------------------------------------ properties
\* a text of the form YYYY-MM-DD naming a month 01..12 and a day 01..31
IsYMD(s) ==
  /\ IsIsoDateText(s)
  /\ ParseInt(SubSeq(s, 6, 7)) \in 1..12
  /\ ParseInt(SubSeq(s, 9, 10)) \in 1..31

\* the instant a source time denotes, Null when it is missing or unreadable
InstantOf(t) ==
  IF t.t = "isotime" THEN Num(t.v)
  ELSE IF t.t = "object" THEN Num(t.v.seconds)
  ELSE Null

IsValidDay(y, m, d) == m \in 1..12 /\ d \in 1..DaysInMonth(y, m)

\* C1: in getInventory over a range that is not in the future, a result
\* that carries data (mode non-null) carries error = null, and a non-null
\* error comes only with mode = null.
C1_ErrorOnlyWithoutData ==
  (cmd = "inventory" /\ outcome.kind = "returned" /\ ~outcome.value.isFutureRange)
    => /\ outcome.value.mode # Null => outcome.value.error = Null
       /\ outcome.value.error # Null => outcome.value.mode = Null

\* the listed order i is among the orders kept
Kept(i) == \E j \in 1..Len(ord.orders) : ord.orders[j].id = ord.listed[i].id

\* the delivery window of the claim, on the order as listed
InDeliveryWindow(order, now) ==
  LET start == InstantOf(order.startTime)
      end == InstantOf(order.endTime)
  IN /\ start # Null /\ start.v <= now
     /\ start.v >= now - SecondsPerYear
     /\ \/ order.unlimitedEndTime = Bool(TRUE)
        \/ (end # Null /\ end.v >= now)

\* C2: with the currently-delivering filter, an order the status filter
\* lets through is kept if and only if its start is present, not after now
\* and not more than 365.25 days before now, and it is unlimited-end or its
\* end is present and not before now.
C2_DeliveringWindow ==
  (cmd = "orders" /\ ord.wantCurrentlyDelivering)
    => \A i \in 1..Len(ord.listed) :
         StatusMatches(ord.listed[i].status, ord.matchStatus)
           => (Kept(i) <=> InDeliveryWindow(ord.listed[i], NowSec))

\* a returned listing that kept the order running from now-10d to now+10d
\* and passed over the unlimited-end order started 400 days ago
C2_Witness ==
  /\ cmd = "orders" /\ ord.wantCurrentlyDelivering /\ outcome.kind = "returned"
  /\ \E i, j \in 1..Len(ord.listed) :
       /\ ord.listed[i].startTime = Timestamp(NowSec - Days(10), 0)
       /\ ord.listed[i].endTime = IsoTime(NowSec + Days(10))
       /\ ord.listed[i].unlimitedEndTime = Bool(FALSE)
       /\ Kept(i)
       /\ ord.listed[j].startTime = IsoTime(NowSec - Days(400))
       /\ ord.listed[j].unlimitedEndTime = Bool(TRUE)
       /\ ~Kept(j)
       /\ Len(outcome.value) = 1

\* C3: for a valid day D given as DDMMYYYY to --start and as YYYY-MM-DD to
\* --end, both parse to a date, startStr and endStr are D as YYYY-MM-DD in
\* every time zone, and a text that is no date parses to null.
C3_BothSpellingsSameDay ==
  pc = "parsed"
    => /\ \A y \in Years, m \in 1..12, d \in 1..31 :
            (IsValidDay(y, m, d) /\ args.start = Text(DDMMYYYY(d, m, y))
               /\ args.end = Text(YYYYMMDD(y, m, d)))
              => /\ inv.startDate # Null /\ inv.endDate # Null
                 /\ inv.startStr = YYYYMMDD(y, m, d)
                 /\ inv.endStr = YYYYMMDD(y, m, d)
       /\ args.start = Text(NotADate) => inv.startDate = Null

\* C4: parseDate is null for DDMMYYYY and for YYYY-MM-DD digits that name
\* no calendar day (a day outside the month, a month outside 1..12).
C4_InvalidDayIsNull ==
  pc = "parsed"
    => \A y \in Years, m \in 0..MaxMonth, d \in 0..MaxDay :
         (~IsValidDay(y, m, d) /\ args.start = Text(DDMMYYYY(d, m, y))
            /\ args.end = Text(YYYYMMDD(y, m, d)))
           => inv.startDate = Null /\ inv.endDate = Null

\* C5: when the structured report attempt has failed and the legacy call
\* has succeeded with total T, _getInventoryForecast returns exactly
\* {data: {_total: {forecasted: T, available: T, reserved: 0}}, error: null}.
C5_LegacyFallbackResult ==
  (cmd = "inventory" /\ inv.v1Err # Undefined /\ inv.total # Undefined)
    => inv.f = [data |-> Obj([k \in {"_total"} |->
                               [forecasted |-> inv.total.v, available |-> inv.total.v,
                                reserved |-> 0]]),
                error |-> Null]

\* the report threw, the legacy call came to 12345
C5_Witness ==
  /\ cmd = "inventory" /\ outcome.kind = "returned"
  /\ inv.v1Err = ErrorObj("report")
  /\ inv.total = Num(12345)
  /\ outcome.value.mode = Str("forecast")

\* the message of a source attempted by getInventory
AttemptMessage(name) ==
  CASE name = "historical" -> inv.h.error
    [] name = "report" -> IF inv.v1Err # Undefined THEN inv.v1Err.message ELSE inv.f.error
    [] name = "soap" -> inv.soapResult.error

\* C6: when every attempted source has failed, the error returned is the
\* first non-empty message in attempt order (historical report, structured
\* report, legacy call), whenever one of them is non-empty.
C6_FirstNonEmptyError ==
  (cmd = "inventory" /\ outcome.kind = "returned" /\ outcome.value.mode = Null)
    => \A i \in 1..Len(inv.attempts) :
         (/\ Truthy(AttemptMessage(inv.attempts[i]))
          /\ \A j \in 1..(i - 1) : ~Truthy(AttemptMessage(inv.attempts[j])))
           => outcome.value.error = AttemptMessage(inv.attempts[i])

\* all three sources failed, the historical one without a message: the
\* structured report's message is the one returned
C6_Witness ==
  /\ cmd = "inventory" /\ outcome.kind = "returned" /\ outcome.value.mode = Null
  /\ inv.attempts = <<"historical", "report", "soap">>
  /\ inv.h.error = Str("")
  /\ inv.v1Err = ErrorObj("report")
  /\ Truthy(inv.soapResult.error)
  /\ outcome.value.error = Str("report")

\* C7: with the credentials file missing, every command ends by throwing
\* that error, at once: no source is attempted and nothing is returned.
C7_MissingCredentialsThrown ==
  ~credentialsOk
    => /\ outcome.kind # "returned"
       /\ inv.attempts = <<>>
       /\ pc = "done" => outcome = Threw(CredentialsError)

\* the presets a call selects
SelectedPresets ==
  IF args.preset.t = "string" /\ \E i \in 1..Len(PresetKeys) : PresetKeys[i] = args.preset.v
  THEN <<args.preset.v>> ELSE PresetKeys

\* no source attempted has yielded data
NoSourceData ==
  /\ inv.h = Undefined \/ inv.h.data = Null
  /\ inv.f = Undefined \/ inv.f.data = Null

\* C8: getInventory never throws over a failing source; it returns one row
\* per selected preset, and without data from any source mode is null,
\* every row's four figures are "-" and the error is not null.
C8_InventoryAlwaysStructured ==
  (cmd = "inventory" /\ focus = "sources")
    => /\ outcome.kind # "thrown"
       /\ pc = "done" =>
            /\ outcome.kind = "returned"
            /\ Len(outcome.value.rows) = Len(SelectedPresets)
            /\ \A i \in 1..Len(SelectedPresets) :
                 outcome.value.rows[i].preset = SelectedPresets[i]
            /\ NoSourceData =>
                 /\ outcome.value.mode = Null
                 /\ outcome.value.error # Null
                 /\ \A i \in 1..Len(outcome.value.rows) :
                      LET r == outcome.value.rows[i]
                      IN /\ r.available = <<"-">> /\ r.forecasted = <<"-">>
                         /\ r.reserved = <<"-">> /\ r.str = <<"-">>

\* every source failed, down to the legacy traffic call, and all presets
\* were asked for
C8_Witness ==
  /\ cmd = "inventory" /\ outcome.kind = "returned"
  /\ inv.attempts = <<"historical", "report", "soap">>
  /\ inv.soapResult.error = Str("traffic")
  /\ outcome.value.mode = Null
  /\ Len(outcome.value.rows) = 3

\* the record has both counts at zero
ZeroFilled(rec) == rec.impressions = Num(0) /\ rec.clicks = Num(0)

\* C9: a failing metrics report aborts neither listing: every listed
\* record is returned, with impressions = 0 and clicks = 0 when the report
\* failed, and for every id the fetched mapping lacks.
C9_MetricsFailureZeroFills ==
  /\ cmd = "orders" =>
       /\ (pc = "done" /\ ord.report # "none"
             /\ \A i \in 1..Len(ord.lookups) :
                  ord.lookups[i].state \notin {"pending", "threw"})
            => outcome.kind = "returned"
       /\ outcome.kind = "returned" =>
            /\ Len(outcome.value) = Len(ord.orderIds)
            /\ \A i \in 1..Len(outcome.value) :
                 /\ outcome.value[i].id = ord.orderIds[i]
                 /\ (ord.report # "rows" \/ outcome.value[i].id.v \notin DOMAIN ord.metrics.v)
                      => ZeroFilled(outcome.value[i])
  /\ cmd = "line-items" =>
       /\ li.report # "none" => outcome.kind = "returned"
       /\ outcome.kind = "returned" =>
            /\ Len(outcome.value) = Len(li.items)
            /\ \A i \in 1..Len(outcome.value) :
                 /\ outcome.value[i].id = li.items[i].id
                 /\ (li.report # "rows" \/ outcome.value[i].id = Undefined
                       \/ outcome.value[i].id.v \notin DOMAIN li.metrics.v)
                      => ZeroFilled(outcome.value[i])

\* two orders returned after the metrics report threw while the line item
\* counts arrived
C9_Witness ==
  /\ cmd = "orders" /\ outcome.kind = "returned"
  /\ ord.report = "throws"
  /\ Len(outcome.value) = 2
  /\ outcome.value[1].lineItemCount = Num(1)
  /\ ZeroFilled(outcome.value[2])

\* a date field: YYYY-MM-DD
IsDateField(s) == IsYMD(s)

ShownDate(t, date) ==
  IF InstantOf(t) = Null \/ InstantOf(t) = Num(0) THEN date = <<"-">>
  ELSE IsYMD(date) /\ date = YYYYMMDD(CivilFromDays(InstantOf(t).v \div SecondsPerDay)[1],
                                      CivilFromDays(InstantOf(t).v \div SecondsPerDay)[2],
                                      CivilFromDays(InstantOf(t).v \div SecondsPerDay)[3])

Ungrouped(text) == ParseInt(SelectSeq(text, IsDigit))

IsTotalOnly(bySize) == Len(bySize) = 1 /\ bySize[1].size = "_total"

\* C11: on a map whose only key is _total, every call returns the available,
\* forecasted and reserved values of that bucket, whatever the preset's size
\* filter, so every preset of the family gets the same row.
C11_TotalBucketIgnoresPresets ==
  (cmd = "aggregate" /\ IsTotalOnly(aggregate.given)) =>
    \A k \in 1..Len(aggregate.rows) :
      /\ Ungrouped(aggregate.rows[k].available) = aggregate.given[1].data.available
      /\ Ungrouped(aggregate.rows[k].forecasted) = aggregate.given[1].data.forecasted
      /\ Ungrouped(aggregate.rows[k].reserved) = aggregate.given[1].data.reserved
      /\ aggregate.rows[k] = aggregate.rows[1]

\* the three presets of the program, each called on a _total bucket of 900
\* available out of 1,500 forecasted
C11_Witness ==
  /\ cmd = "aggregate" /\ pc = "done"
  /\ IsTotalOnly(aggregate.given)
  /\ aggregate.given[1].data.available = 900
  /\ aggregate.given[1].data.forecasted = 1500
  /\ aggregate.family = INVENTORY_PRESETS
  /\ Len(aggregate.rows) = 2 * Len(INVENTORY_PRESETS)
  /\ aggregate.rows[3].forecasted = <<"1", ",", "5", "0", "0">>

IsForecastShaped(bySize) ==
  \A i \in 1..Len(bySize) :
    bySize[i].size # "_total" /\ "forecasted" \in DOMAIN bySize[i].data

\* What a preset's filter says of a size token, read off the preset itself.
FilterAccepts(preset, size) ==
  IF preset.sizeFilter = Null THEN TRUE
  ELSE StripWhitespace(size) \in preset.sizeFilter.accepts

\* The filters of the family are pairwise disjoint on the keys of the map and
\* together accept every key: each key is accepted by exactly one preset.
SplitsKeys(family, bySize) ==
  \A i \in 1..Len(bySize) :
    Cardinality({p \in 1..Len(family) : FilterAccepts(family[p], bySize[i].size)}) = 1

RECURSIVE ForecastedOfRows(_, _)
ForecastedOfRows(rows, n) ==
  IF n = 0 THEN 0 ELSE ForecastedOfRows(rows, n - 1) + Ungrouped(rows[n].forecasted)

RECURSIVE ForecastedOfEntries(_, _)
ForecastedOfEntries(bySize, n) ==
  IF n = 0 THEN 0 ELSE ForecastedOfEntries(bySize, n - 1) + bySize[n].data.forecasted

\* C12: on a forecast-shaped map without _total, once every preset of a
\* family whose filters split the keys has been aggregated, the forecasted
\* figures of the rows add up to the forecasted figures of all the entries:
\* no entry is counted twice, none is dropped.
C12_DisjointPresetsAddUp ==
  (/\ cmd = "aggregate"
   /\ IsForecastShaped(aggregate.given)
   /\ SplitsKeys(aggregate.family, aggregate.given)
   /\ Len(aggregate.rows) >= Len(aggregate.family)) =>
    ForecastedOfRows(aggregate.rows, Len(aggregate.family))
      = ForecastedOfEntries(aggregate.given, Len(aggregate.given))

\* two filters that split a map of two sizes, 1,500 forecasted on one side
\* and 3 on the other
C12_Witness ==
  /\ cmd = "aggregate" /\ pc = "done"
  /\ Len(aggregate.family) = 2
  /\ Len(aggregate.given) = 2
  /\ IsForecastShaped(aggregate.given)
  /\ SplitsKeys(aggregate.family, aggregate.given)
  /\ aggregate.rows[1].forecasted = <<"1", ",", "5", "0", "0">>
  /\ aggregate.rows[2].forecasted = <<"3">>

\* The entries a call with this preset adds up (the _total bucket, when the
\* map has one, whatever the preset).
AcceptedEntries(bySize, preset) ==
  {i \in 1..Len(bySize) :
     bySize[i].size = "_total" \/ FilterAccepts(preset, bySize[i].size)}

RECURSIVE FieldTotal(_, _, _)
FieldTotal(bySize, entries, field) ==
  IF entries = {} THEN 0
  ELSE LET i == CHOOSE x \in entries : TRUE
       IN bySize[i].data[field] + FieldTotal(bySize, entries \ {i}, field)

\* digits, a point, one digit and "%"
IsOneDecimalPercent(text) ==
  /\ Len(text) >= 4
  /\ text[Len(text)] = "%"
  /\ text[Len(text) - 2] = "."
  /\ \A i \in (1..Len(text)) \ {Len(text) - 2, Len(text)} : IsDigit(text[i])

\* text shows num / den * 100 to the nearest tenth
ShowsTenthsOfPercent(text, num, den) ==
  LET tenths == Ungrouped(text)
      gap == tenths * den - 1000 * num
  IN /\ IsOneDecimalPercent(text)
     /\ 2 * gap <= den
     /\ 2 * (0 - gap) <= den

\* C13: in every row aggregated from forecast data, str is "-" exactly when
\* the forecasted total of the row is 0, and otherwise it is reserved /
\* forecasted * 100 written as a percentage (to one decimal).
C13_SellThroughOrPlaceholder ==
  cmd = "aggregate" =>
    \A k \in 1..Len(aggregate.rows) :
      LET row == aggregate.rows[k]
          taken == AcceptedEntries(aggregate.given, PresetOfCall(aggregate, k))
          forecasted == FieldTotal(aggregate.given, taken, "forecasted")
          reserved == FieldTotal(aggregate.given, taken, "reserved")
      IN "str" \in DOMAIN row =>
           /\ row.str = <<"-">> <=> forecasted = 0
           /\ forecasted > 0 => ShowsTenthsOfPercent(row.str, reserved, forecasted)

\* one preset with 1 reserved out of 3 forecasted, another with nothing
\* forecasted but 7 reserved
C13_Witness ==
  /\ cmd = "aggregate" /\ pc = "done"
  /\ IsForecastShaped(aggregate.given)
  /\ \E k, j \in 1..Len(aggregate.rows) :
       /\ aggregate.rows[k].str = <<"3", "3", ".", "3", "%">>
       /\ aggregate.rows[j].str = <<"-">>
       /\ aggregate.rows[j].reserved = <<"7">>

\* ------------------------------------------ properties of getOrders, again
\* C14: getOrders never holds more orders than the limit the command line
\* gave it, and it is still pulling from the listing only while the count is
\* below that limit.
C14_AtMostLimit ==
  (cmd = "orders" /\ args.limit.t = "number") =>
    /\ Len(ord.orders) <= args.limit.v
    /\ (pc = "list" /\ ord.listed # <<>>) => Len(ord.orders) < args.limit.v

StatusNames ==
  <<"DRAFT", "PENDING_APPROVAL", "APPROVED", "DISAPPROVED", "PAUSED", "CANCELED",
    "DELETED">>

\* The status of an order as listed, a code from 1 to 7 replaced by its name.
RawStatusShown(status) ==
  IF status.t = "number"
  THEN IF status.v \in 1..7 THEN Str(StatusNames[status.v]) ELSE status
  ELSE IF status.t = "string" THEN status
  ELSE Str("")

\* C15: with the currently-delivering filter every order kept has the status
\* DELIVERING; without it every listed order the status filter lets through
\* is kept, whatever its start, end and unlimited-end fields, and shows its
\* status as listed, a code from 1 to 7 by name and any other number as that
\* number.
C15_StatusShown ==
  cmd = "orders" =>
    IF ord.wantCurrentlyDelivering
    THEN \A j \in 1..Len(ord.orders) : ord.orders[j].status = Str("DELIVERING")
    ELSE \A i \in 1..Len(ord.listed) :
           StatusMatches(ord.listed[i].status, ord.matchStatus) =>
             \E j \in 1..Len(ord.orders) :
               /\ ord.orders[j].id = ord.listed[i].id
               /\ ord.orders[j].status = RawStatusShown(ord.listed[i].status)

\* an unfiltered listing returned with an order of status 3 that has no
\* start time, shown as APPROVED, and an order of the unknown status 9
C15_Witness ==
  /\ cmd = "orders" /\ outcome.kind = "returned"
  /\ ~ord.wantCurrentlyDelivering
  /\ \E i, j \in 1..Len(ord.listed) :
       /\ ord.listed[i].status = Num(3)
       /\ ord.listed[i].startTime = Undefined
       /\ ord.orders[i].status = Str("APPROVED")
       /\ ord.listed[j].status = Num(9)
       /\ ord.orders[j].status = Num(9)

\* --------------------------------------- properties of getLineItems, again
\* C16: the progress of a line item is "-" exactly when its goalUnits is
\* absent or not above 0; otherwise it is delivered / goalUnits * 100 to one
\* decimal with "%", delivered being the clicks when goalUnitType is "CLICKS"
\* and the impressions otherwise.
C16_ProgressOrPlaceholder ==
  cmd = "line-items" =>
    \A i \in 1..Len(li.lineItems) :
      LET rec == li.lineItems[i]
          hasGoal == rec.goalUnits.t = "number" /\ rec.goalUnits.v > 0
          delivered == IF rec.goalUnitType = Str("CLICKS") THEN rec.clicks.v
                       ELSE rec.impressions.v
      IN "progress" \in DOMAIN rec =>
           /\ rec.progress = <<"-">> <=> ~hasGoal
           /\ hasGoal => ShowsTenthsOfPercent(rec.progress, delivered, rec.goalUnits.v)

\* a goal of 1000 clicks with 10 clicks on 200 impressions shows 1.0%, and
\* an item with a goal of 0 units shows the placeholder
C16_Witness ==
  /\ cmd = "line-items" /\ outcome.kind = "returned"
  /\ \E i, j \in 1..Len(outcome.value) :
       /\ outcome.value[i].goalUnits = Num(1000)
       /\ outcome.value[i].goalUnitType = Str("CLICKS")
       /\ outcome.value[i].clicks = Num(10)
       /\ outcome.value[i].impressions = Num(200)
       /\ outcome.value[i].progress = <<"1", ".", "0", "%">>
       /\ outcome.value[j].goalUnits = Num(0)
       /\ outcome.value[j].progress = <<"-">>

\* digits, a point, two digits and "%"
IsTwoDecimalPercent(text) ==
  /\ Len(text) >= 5
  /\ text[Len(text)] = "%"
  /\ text[Len(text) - 3] = "."
  /\ \A i \in (1..Len(text)) \ {Len(text) - 3, Len(text)} : IsDigit(text[i])

\* text shows num / den * 100 to the nearest hundredth
ShowsHundredthsOfPercent(text, num, den) ==
  LET hundredths == Ungrouped(text)
      gap == hundredths * den - 10000 * num
  IN /\ IsTwoDecimalPercent(text)
     /\ 2 * gap <= den
     /\ 2 * (0 - gap) <= den

\* C17: the ctr of a line item is "-" exactly when its impressions are 0;
\* otherwise it is clicks / impressions * 100 to two decimals with "%".
C17_CtrOrPlaceholder ==
  cmd = "line-items" =>
    \A i \in 1..Len(li.lineItems) :
      LET rec == li.lineItems[i]
      IN "ctr" \in DOMAIN rec =>
           /\ rec.ctr = <<"-">> <=> rec.impressions = Num(0)
           /\ rec.impressions # Num(0) =>
                ShowsHundredthsOfPercent(rec.ctr, rec.clicks.v, rec.impressions.v)

\* 10 clicks on 200 impressions show 5.00%, and an item without metrics
\* shows the placeholder
C17_Witness ==
  /\ cmd = "line-items" /\ outcome.kind = "returned"
  /\ \E i, j \in 1..Len(outcome.value) :
       /\ outcome.value[i].clicks = Num(10)
       /\ outcome.value[i].impressions = Num(200)
       /\ outcome.value[i].ctr = <<"5", ".", "0", "0", "%">>
       /\ outcome.value[j].impressions = Num(0)
       /\ outcome.value[j].ctr = <<"-">>

\* ------------------------------------- properties of the inventory sources
\* A source result with exactly one of data and error set.
IsDataOrError(r) ==
  /\ r.data = Null <=> r.error # Null
  /\ r.data # Null => r.data.t = "object"
  /\ r.error # Null => r.error.t = "string"

\* C18: every result of _getInventoryHistorical, _getInventoryForecast and
\* _getTrafficDataSoap has data = null exactly when its error is a message;
\* data and error are never both set and never both null.
C18_DataXorError ==
  cmd = "inventory" =>
    /\ inv.h # Undefined => IsDataOrError(inv.h)
    /\ inv.f # Undefined => IsDataOrError(inv.f)
    /\ inv.soapResult # Undefined => IsDataOrError(inv.soapResult)

\* a run in which the historical report had no result, the forecast report
\* threw and the legacy call found no root ad unit
C18_Witness ==
  /\ cmd = "inventory" /\ outcome.kind = "returned"
  /\ inv.h = Result(Null, Str(NoResultMessage))
  /\ inv.soapResult = Result(Null, Str("Could not get root ad unit"))
  /\ inv.f # Undefined /\ inv.f.data = Null /\ inv.f.error # Null

C20_LegacyTriedBeforeNull ==
  (cmd = "inventory" /\ inv.f # Undefined /\ inv.f.data = Null) =>
    \E i \in 1..Len(inv.attempts) :
      /\ inv.attempts[i] = "report"
      /\ Cardinality({j \in 1..Len(inv.attempts) : inv.attempts[j] = "soap"}) = 1
      /\ \E j \in (i + 1)..Len(inv.attempts) : inv.attempts[j] = "soap"

\* ------------------------------------- properties of the legacy source
\* C21: when the ForecastService answers without forecastedTimeSeries values,
\* the legacy source has failed: _getTrafficDataSoap and, through it,
\* _getInventoryForecast return data = null with an error, not a _total
\* bucket.
C21_NoValuesIsFailure ==
  (/\ cmd = "inventory"
   /\ inv.traffic # Undefined
   /\ inv.traffic.k = "response"
   /\ inv.traffic.values = Undefined) =>
    /\ inv.soapResult.data = Null /\ inv.soapResult.error # Null
    /\ inv.f.data = Null /\ inv.f.error # Null

\* -------------------------------- properties of the order of the sources
IsPrefixOf(s, t) == Len(s) <= Len(t) /\ \A i \in 1..Len(s) : s[i] = t[i]

\* C22: when the range is not in the future, the sources are attempted in
\* the order historical report, future-sell-through report, legacy call,
\* each at most once; the report is attempted only after the historical
\* attempt has returned no data, and a historical attempt that returned data
\* is the only attempt of the call.
C22_HistoricalFirstNoRetry ==
  (cmd = "inventory" /\ focus = "sources" /\ pc # "start" /\ ~inv.isFutureRange) =>
    /\ IsPrefixOf(inv.attempts, <<"historical", "report", "soap">>)
    /\ pc # "historical" => Len(inv.attempts) >= 1
    /\ Len(inv.attempts) >= 2 => inv.h.data = Null
    /\ (inv.h # Undefined /\ inv.h.data # Null) => inv.attempts = <<"historical">>

\* a returned call that went through all three sources, and whose
\* historical report had thrown
C22_Witness ==
  /\ cmd = "inventory" /\ outcome.kind = "returned"
  /\ ~inv.isFutureRange
  /\ inv.h.data = Null
  /\ inv.attempts = <<"historical", "report", "soap">>

\* the start handed to getInventory lies after the current time
StartsInFuture == inv.startDate.t = "number" /\ inv.startDate.v > NowSec

\* C23: when the start of the range is after the current time, only the
\* future-sell-through source is attempted, once, its report first and the
\* legacy call inside it; the historical report is never attempted; and when
\* that source returns no data the result has mode = null and carries the
\* source's error or, that error being empty, the fixed message. Without a
\* start date the range is never a future range.
C23_FutureOnlyForecast ==
  (cmd = "inventory" /\ focus = "sources" /\ pc # "start") =>
    /\ args.start = Undefined => ~inv.isFutureRange
    /\ StartsInFuture =>
         /\ inv.isFutureRange
         /\ IsPrefixOf(inv.attempts, <<"report", "soap">>)
         /\ inv.h = Undefined
         /\ pc # "forecast" => Len(inv.attempts) >= 1
         /\ (outcome.kind = "returned" /\ inv.f.data = Null) =>
              /\ outcome.value.mode = Null
              /\ outcome.value.error =
                   IF inv.f.error.t = "string" /\ inv.f.error.v # ""
                   THEN inv.f.error ELSE Str(FutureUnavailable)

\* a future range whose source failed with an empty error, returned with
\* the fixed message
C23_Witness ==
  /\ cmd = "inventory" /\ outcome.kind = "returned"
  /\ StartsInFuture
  /\ inv.f.data = Null /\ inv.f.error = Str("")
  /\ inv.attempts = <<"report", "soap">>
  /\ outcome.value.mode = Null
  /\ outcome.value.error = Str(FutureUnavailable)

\* ------------------------------------- properties of the join of getOrders
\* C24: the line-item-count lookups and the metrics fetch run side by side,
\* and the merge waits for all of them: no order carries a count while
\* getOrders is at the join, and in every returned listing, whatever the
\* order in which the pages arrived, each order's lineItemCount is the
\* number of line items over all the pages of its own lookup.
C24_CountsJoinedPerOrder ==
  cmd = "orders" =>
    /\ pc = "join" => \A i \in 1..Len(ord.orders) : ord.orders[i].lineItemCount = Null
    /\ outcome.kind = "returned" =>
         /\ ord.metrics # Undefined
         /\ \A i \in 1..Len(ord.lookups) :
              /\ ord.lookups[i].state # "pending"
              /\ ord.lookups[i].state = "done" =>
                   outcome.value[i].lineItemCount = Num(ord.lookups[i].count)

\* two orders returned, two line items over two pages for the first and
\* none for the second
C24_Witness ==
  /\ cmd = "orders" /\ outcome.kind = "returned"
  /\ Len(outcome.value) = 2
  /\ ord.lookups[1].state = "done" /\ ord.lookups[2].state = "done"
  /\ outcome.value[1].lineItemCount = Num(2)
  /\ outcome.value[2].lineItemCount = Num(0)

\* C26: a lookup that failed, by a response that is not OK or by a fetch
\* that throws, on whichever page, costs its own order only: getOrders does
\* not throw, and the listing it returns has 0 for that order and, for every
\* order whose lookup completed, the count that lookup fetched.
C26_FailedLookupIsolated ==
  (/\ cmd = "orders" /\ pc = "done"
   /\ \E i \in 1..Len(ord.lookups) : ord.lookups[i].state \in {"failed", "threw"}) =>
    /\ outcome.kind = "returned"
    /\ Len(outcome.value) = Len(ord.orderIds)
    /\ \A i \in 1..Len(ord.lookups) :
         /\ ord.lookups[i].state \in {"failed", "threw"} =>
              outcome.value[i].lineItemCount = Num(0)
         /\ ord.lookups[i].state = "done" =>
              outcome.value[i].lineItemCount = Num(ord.lookups[i].count)

\* ------------------------------------------ properties of the time parsers
\* What the parser is to return for the source time t: the instant of an
\* ISO-8601 text, seconds * 1000 + nanos / 1e6 of a pair (here in seconds),
\* and null for anything else.
IsParsedTime(r, t) ==
  IF t.t = "isotime" THEN r = Num(t.v)
  ELSE IF t.t = "object" /\ "seconds" \in DOMAIN t.v
       THEN r = Num(t.v.seconds + t.v.nanos \div 1000000000)
       ELSE r = Null

\* C25: the parser of getOrders and the parser of getLineItems return null,
\* and nothing else, for every start or end time that is neither a readable
\* ISO-8601 text nor a {seconds, nanos} pair, an unreadable text included,
\* and the instant of the pair for a pair.
C25_NullUnlessTime ==
  /\ cmd = "orders" =>
       \A i \in 1..Len(ord.listed) :
         /\ IsParsedTime(parseTimeOrders(ord.listed[i].startTime), ord.listed[i].startTime)
         /\ IsParsedTime(parseTimeOrders(ord.listed[i].endTime), ord.listed[i].endTime)
  /\ cmd = "line-items" =>
       \A i \in 1..Len(li.items) :
         /\ IsParsedTime(parseTimeLineItems(li.items[i].startTime), li.items[i].startTime)
         /\ IsParsedTime(parseTimeLineItems(li.items[i].endTime), li.items[i].endTime)

\* ------------------------------------- properties of the inventory rows
\* C27: when the rows are built at most one of forecastData and
\* historicalData is set; every row has the mode of the result; the mode is
\* 'forecast' only with data of the future-sell-through source (its report
\* or its legacy call) and 'historical' only with data of the historical
\* report, and a historical row shows "-" for forecasted, reserved and str.
C27_OneSourcePerResult ==
  (cmd = "inventory" /\ focus = "sources") =>
    /\ pc \in {"rows", "done"} => (inv.forecastData = Null \/ inv.historicalData = Null)
    /\ outcome.kind = "returned" =>
         /\ \A i \in 1..Len(outcome.value.rows) :
              /\ outcome.value.rows[i].mode = outcome.value.mode
              /\ outcome.value.rows[i].mode = Str("historical") =>
                   /\ outcome.value.rows[i].forecasted = <<"-">>
                   /\ outcome.value.rows[i].reserved = <<"-">>
                   /\ outcome.value.rows[i].str = <<"-">>
         /\ outcome.value.mode = Str("forecast") =>
              inv.f # Undefined /\ inv.f.data # Null
         /\ outcome.value.mode = Str("historical") =>
              inv.h # Undefined /\ inv.h.data # Null /\ inv.f = Undefined

\* a result of three historical rows, after a historical report with rows
C27_Witness ==
  /\ cmd = "inventory" /\ outcome.kind = "returned"
  /\ outcome.value.mode = Str("historical")
  /\ inv.h.data # Null /\ inv.h.data.v # EmptyMap
  /\ Len(outcome.value.rows) = 3
  /\ \A i \in 1..3 : outcome.value.rows[i].mode = Str("historical")

\* ------------------------------------ properties of the aggregator, again
AggregatedFields == {"available", "forecasted", "reserved"}

\* C28: on a forecast-shaped map, the run-of-site row holds the sums of
\* available, forecasted and reserved over all the entries, and the desktop
\* and mobile rows hold no more than the run-of-site row in any of the three.
C28_PresetsWithinRunOfSite ==
  (/\ cmd = "aggregate"
   /\ IsForecastShaped(aggregate.given)
   /\ aggregate.family = INVENTORY_PRESETS
   /\ Len(aggregate.rows) >= Len(INVENTORY_PRESETS)) =>
    \A field \in AggregatedFields :
      /\ Ungrouped(aggregate.rows[1][field])
           = FieldTotal(aggregate.given, 1..Len(aggregate.given), field)
      /\ \A k \in 2..Len(INVENTORY_PRESETS) :
           Ungrouped(aggregate.rows[k][field]) <= Ungrouped(aggregate.rows[1][field])

\* a map with a size both filters accept and a size neither accepts:
\* 1,503 forecasted run-of-site, 1,500 on desktop and 1,500 on mobile
C28_Witness ==
  /\ cmd = "aggregate" /\ pc = "done"
  /\ IsForecastShaped(aggregate.given)
  /\ aggregate.family = INVENTORY_PRESETS
  /\ aggregate.rows[1].forecasted = <<"1", ",", "5", "0", "3">>
  /\ aggregate.rows[2].forecasted = <<"1", ",", "5", "0", "0">>
  /\ aggregate.rows[3].forecasted = <<"1", ",", "5", "0", "0">>

\* ------------------------------------------------------------------ C29
\* the status values the claim equates, in the letter cases of the runs
DeliveringSynonyms == {Str("delivering"), Str("Approved"), Str("ACTIVE")}

\* the filter of an approved order, as line 135 gives it for 'delivering'
ApprovedFilter == Obj([name |-> "APPROVED", code |-> 3])

\* the ids of the orders of a listing that are approved and inside the
\* delivery window at now, in listing order
RECURSIVE DeliveringIds(_, _)
DeliveringIds(listed, now) ==
  IF listed = <<>> THEN <<>>
  ELSE LET order == Head(listed)
       IN (IF StatusMatches(order.status, ApprovedFilter)
              /\ InDeliveryWindow(order, now)
           THEN <<order.id>> ELSE <<>>)
          \o DeliveringIds(Tail(listed), now)

====
